---- MODULE Spec2Model ----
(***************************************************************************)
(* studio-cast: the job queue (claim / run / resolve worker loops) and the *)
(* upload finalization layer (resumable "tus" and cloud multipart          *)
(* completion), modelled from the TypeScript sources.                      *)
(*                                                                         *)
(* Every `await` of the source is a point where another worker or request  *)
(* may run, so a handler is cut into one action per awaited store, file    *)
(* system or object-storage operation.  The store is PostgreSQL through    *)
(* Prisma: an interactive transaction without an isolation level runs      *)
(* READ COMMITTED, so a read and a later write of one transaction are two  *)
(* steps, with other transactions' commits allowed between them.           *)
(***************************************************************************)
EXTENDS Integers, Sequences, FiniteSets, TLC

\* ------------------------------------------------------------------ bounds
NumWorkers == 2       \* worker loops of the transcode type
MaxJobs == 3          \* rows of the job table
NumCalls == 2         \* completion requests in one run
NumUploads == 1       \* uploads of each transport
MaxParts == 3         \* parts of a multipart upload
NumRequests == 2      \* export requests in one run
MaxLoopJobs == 1      \* jobs handed to the single loop of the loop specification

\* ------------------------------------------------------- program constants
MAX_ATTEMPTS == 3

\* ------------------------------------------------------------------- state
VARIABLES
    jobs,        \* the job table, in creation order: jobs[i] is the row with id i
    tracks,      \* the track table: track id -> row
    wpc,         \* worker loop -> its position in runTranscodeWorker
    wfound,      \* worker loop -> id of the row its findFirst returned
    wjob,        \* worker loop -> the JobRow its claim returned
    werr,        \* worker loop -> the error its try block caught
    claims,      \* history: job id -> number of claim calls that returned it
    terminated   \* history: ids of the jobs that have been succeeded, failed or dead

workerVars == <<wpc, wfound, wjob, werr, claims, terminated>>

VARIABLES
    uploads,     \* the upload table: upload id -> row
    tusmap,      \* the upload_tus_map table: upload id -> tus id, 0 when no row
    tusd,        \* TUSD_UPLOAD_DIR: tus id -> whether the data file is there
    media,       \* MEDIA_ROOT: the storage keys that have a file
    r2,          \* object storage: multipart upload id -> state of its session
    cpc,         \* completion request -> its position in the service function
    creq,        \* the completion payload the client sends, and sends again on a retry
    cloc,        \* completion request -> the locals of the service function
    cres,        \* completion request -> what it returned or threw
    clog         \* history: completion request -> what it has done so far

uploadVars == <<uploads, tusmap, tusd, media, r2, cpc, creq, cloc, cres, clog>>

VARIABLES
    parts,       \* the parts list of the multipart completion request
    r2parts,     \* MultipartUpload.Parts the storage received with the completion
    pres         \* what became of the parts list: none, sent, bad_request

partsVars == <<parts, r2parts, pres>>

VARIABLES
    wtype,       \* worker loop -> the job type its process serves, off when not started
    stopping,    \* worker loop -> the stopping flag of its process
    wloc         \* worker loop -> the locals of its runJob

loopVars == <<wtype, stopping>>

VARIABLES
    exports,     \* the export_artifact table: artifact id -> row
    xpc,         \* export request -> its position in createExportService
    xreq,        \* export request -> the export type it asks for
    xres,        \* export request -> what it returned
    xlog         \* history: export request -> what it saw and did

xreqVars == <<xpc, xreq, xres, xlog>>
exportVars == <<exports, xreqVars>>

VARIABLES
    ipc          \* upload -> the position of its initiateUploadService call

VARIABLES
    segments     \* the transcript_segment table: the set of its rows

VARIABLES
    tpc,         \* worker loop -> the position of its runTranscodeForTrack call
    tloc,        \* worker loop -> the locals of that call
    tmpfiles,    \* the temp files on the worker host
    finals       \* object storage: the final keys that have an object

execVars == <<tpc, tloc, tmpfiles, finals>>

VARIABLES
    tkind,       \* track id -> the kind the track was created with
    porder       \* history: the track ids in the order they were processed

srcVars == <<tkind, porder>>

VARIABLES
    xidem        \* history: ids of the jobs whose export runJob returned at its
                 \* idempotency check

VARIABLES
    mreq,        \* the body of a multipart initiate request: size and partSize
    mplan        \* the plan initiateUploadService made of it

planVars == <<mreq, mplan>>

VARIABLES
    ureq,        \* the arguments of uploadMultipartFile
    ui,          \* its shared index i
    upc,         \* pool worker -> its position
    upart,       \* pool worker -> the part its run() holds
    uattempt,    \* pool worker -> attempt of that run()
    uresults,    \* results, in the order of the pushes
    utakers,     \* history: part number -> the pool workers that PUT it
    uputs,       \* history: part number -> the number of fetch calls made for it
    ustatus,     \* the promise uploadMultipartFile returned
    ureturn      \* the value it resolved with

poolVars ==
    <<ureq, ui, upc, upart, uattempt, uresults, utakers, uputs, ustatus, ureturn>>

VARIABLES
    hreq,        \* the tusd hook request handled last
    hres,        \* the answer of the hook handler to it
    hlog         \* what the handler logged: saved, failed, missing or nothing

hookVars == <<hreq, hres, hlog>>

VARIABLES
    rooms,       \* the signaling registry: roomId -> (peerId -> StudioPeer)
    wcur,        \* socket -> currentRoomId and currentPeerId of its connection
    wopen,       \* socket -> open or closed
    wsent        \* socket -> the type of the message sent to it last

sigVars == <<rooms, wcur, wopen, wsent>>

\* the state of the multipart plan, of the browser's uploader and of the
\* tusd hook handler, and of the studio signaling registry
clientVars == <<planVars, poolVars, hookVars, sigVars>>

\* the state only the asr worker, the transcode executor, the export
\* source selection and the multipart client are concerned with
laterVars == <<segments, execVars, srcVars, xidem, clientVars>>

\* the state that neither the transcode loops nor the completion services write
otherVars ==
    <<partsVars, loopVars, wloc, exportVars, ipc, laterVars>>

vars == <<jobs, tracks, workerVars, uploadVars, otherVars>>

Workers == 1 .. NumWorkers
JobIds == 1 .. Len(jobs)

NULL == "null"
NoKey == [dir |-> "none", rec |-> 0, id |-> 0, file |-> 0]
NoJob == [id |-> 0, type |-> "none", attempts |-> 0, payload |-> 0]
NoErr == [code |-> "", message |-> ""]

TerminalStates == {"succeeded", "failed", "dead"}

\* ------------------------------------------------------------- identifiers
\* createTrackAndUpload creates a track together with its upload; the model
\* gives both the same number.  Uploads 1..NumUploads use the resumable (tus)
\* transport, the next NumUploads the multipart transport.
UploadIds == 1 .. (2 * NumUploads)
TrackIds == UploadIds
TusUploads == 1 .. NumUploads
Recording == 1
ProtocolOf(u) == IF u \in TusUploads THEN "tus" ELSE "multipart"

\* relKey of completeUploadService: recordings/<rec>/tracks/<track>/raw/<upload>.bin
RelKey(rec, trackId, uploadId) ==
    [dir |-> "raw", rec |-> rec, id |-> trackId, file |-> uploadId]

\* objectKey of initiateUploadService: recordings/<rec>/tracks/<upload>.raw
ObjectKey(rec, uploadId) ==
    [dir |-> "tracks", rec |-> rec, id |-> uploadId, file |-> uploadId]

\* finalKey of the transcode runner: recordings/<rec>/tracks/<track>/final/<track>.<ext>
FinalKey(rec, trackId) ==
    [dir |-> "final", rec |-> rec, id |-> trackId, file |-> trackId]

\* ---------------------------------------------------------------- job store
\* createJob: a new row, state queued, attempts 0 (column default), no error.
\* payload is the trackId of { trackId }, 0 when the field is missing.
NewJob(recordingId, type, payload) ==
    [recording_id |-> recordingId, type |-> type, payload |-> payload,
     state |-> "queued", attempts |-> 0, last_error |-> NULL]

createJob(recordingId, type, payload) ==
    jobs' = Append(jobs, NewJob(recordingId, type, payload))

\* findFirst({ where: { type, state: queued }, orderBy: { created_at: 'asc' } }):
\* the id of the oldest queued row of the type, 0 when there is none.
QueuedOfType(type) ==
    {i \in JobIds : jobs[i].type = type /\ jobs[i].state = "queued"}

FindFirstQueued(type) ==
    IF QueuedOfType(type) = {} THEN 0
    ELSE CHOOSE i \in QueuedOfType(type) : \A k \in QueuedOfType(type) : i <= k

\* The row written by the claim's update({ where: { id } }): running, attempts + 1.
\* The where clause names the id only, so the row's current state is not looked at.
ClaimedRow(row) ==
    [row EXCEPT !.state = "running", !.attempts = row.attempts + 1]

\* message of fail(): the code as prefix when the error carries one
ErrorText(err) ==
    IF err.code # "" THEN err.code \o ": " \o err.message ELSE err.message

\* fail(): attemptsLeft is computed from the JobRow the claim returned
AttemptsLeft(jobRow) == MAX_ATTEMPTS - jobRow.attempts > 0

\* String.prototype.slice(0, n)
Slice(s, n) == IF Len(s) <= n THEN s ELSE SubSeq(s, 1, n)

LAST_ERROR_CAP == 8000

\* (mutant of LastError: the message is stored whole)
LastError_Whole(err) == ErrorText(err)

\* fail(): last_error: message.slice(0, 8000)
LastError(err) == Slice(ErrorText(err), LAST_ERROR_CAP)

FailedRow(row, jobRow, err) ==
    [row EXCEPT !.state = IF AttemptsLeft(jobRow) THEN "queued" ELSE "failed",
                !.last_error = LastError(err)]

SucceededRow(row) ==
    [row EXCEPT !.state = "succeeded", !.last_error = NULL]

\* history bookkeeping shared by the actions that write the job table
NowTerminated(newJobs) ==
    terminated \cup {i \in 1 .. Len(newJobs) : newJobs[i].state \in TerminalStates}

\* --------------------------------------------------------------- worker loop
\* The job type of a loop: claimOneTranscodeJob, claimOneAsrJob and
\* claimOneExportJob differ in the type of their findFirst only.
WorkerType(w) == wtype[w]

\* A worker holds a job from the return of its claim to the return of succeed/fail.
Holding(w) ==
    wpc[w] \in {"run", "persist", "enqueue", "succeed", "fail",
                "xmark", "xsource", "xpersist", "sdelete", "sinsert"}

\* job.repo createJob, called by an upstream stage while the workers run.
\* payload 0 is a payload_json without trackId.
EnqueueTranscode ==
    /\ Len(jobs) < MaxJobs
    /\ \E payload \in {0} \cup TrackIds :
          createJob(Recording, "transcode", payload)
    /\ UNCHANGED <<tracks, workerVars, uploadVars, otherVars>>

\* claimOneTranscodeJob, first statement of the transaction: findFirst.
\* No row: the claim returns null and the loop sleeps and comes back here.
ClaimFindFirst(w) ==
    /\ wpc[w] = "loop"
    /\ WorkerType(w) # "off"
    /\ ~stopping[w]
    /\ LET id == FindFirstQueued(WorkerType(w)) IN
          /\ wfound' = [wfound EXCEPT ![w] = id]
          /\ wpc' = [wpc EXCEPT ![w] = IF id = 0 THEN "loop" ELSE "update"]
    /\ UNCHANGED <<jobs, tracks, wjob, werr, claims, terminated, uploadVars, otherVars>>

\* claimOneTranscodeJob, second statement: update by id, and the commit.
\* The updated row is the JobRow the claim returns.
ClaimUpdate(w) ==
    /\ wpc[w] = "update"
    /\ LET id == wfound[w]
           row == ClaimedRow(jobs[id]) IN
          /\ jobs' = [jobs EXCEPT ![id] = row]
          /\ wjob' = [wjob EXCEPT ![w] =
                        [id |-> id, type |-> row.type,
                         attempts |-> row.attempts, payload |-> row.payload]]
          /\ claims' = [claims EXCEPT ![id] = @ + 1]
    /\ wfound' = [wfound EXCEPT ![w] = 0]
    /\ wpc' = [wpc EXCEPT ![w] = "run"]
    /\ UNCHANGED <<tracks, werr, terminated, uploadVars, otherVars>>

\* The stderr of a failing ffmpeg run, which transcodeVideo and transcodeAudio
\* put whole into the message of the error they throw: here 2^13 characters.
RECURSIVE Doubled(_, _)
Doubled(s, n) == IF n = 0 THEN s ELSE Doubled(s \o s, n - 1)

Stderr == Doubled("x", 13)

\* what runTranscodeForTrack throws: a short message, or one that carries a
\* long stderr
TranscodeErrors ==
    {[code |-> "", message |-> "ffmpeg failed"],
     [code |-> "", message |-> "ffmpeg video transcode failed: " \o Stderr]}

\* runJob up to the return of runTranscodeForTrack: the payload check, the
\* track lookup, and the transcode itself, which returns or throws.
RunJobTranscode(w) ==
    /\ wpc[w] = "run"
    /\ WorkerType(w) = "transcode"
    /\ LET trackId == wjob[w].payload IN
          \/ /\ trackId = 0
             /\ werr' = [werr EXCEPT ![w] =
                   [code |-> "bad_payload", message |-> "payload_missing_trackId"]]
             /\ wpc' = [wpc EXCEPT ![w] = "fail"]
          \/ /\ trackId # 0
             /\ tracks[trackId].storage_key_raw = NoKey
             /\ werr' = [werr EXCEPT ![w] =
                   [code |-> "not_found", message |-> "track_not_found_or_no_raw"]]
             /\ wpc' = [wpc EXCEPT ![w] = "fail"]
          \/ /\ trackId # 0
             /\ tracks[trackId].storage_key_raw # NoKey
             /\ \/ /\ wpc' = [wpc EXCEPT ![w] = "persist"]
                   /\ UNCHANGED werr
                \/ /\ \E err \in TranscodeErrors : werr' = [werr EXCEPT ![w] = err]
                   /\ wpc' = [wpc EXCEPT ![w] = "fail"]
    /\ UNCHANGED <<jobs, tracks, wfound, wjob, claims, terminated, uploadVars, otherVars>>

\* runJob: track.update({ storage_key_final, state: processed })
PersistFinal(w) ==
    /\ wpc[w] = "persist"
    /\ LET trackId == wjob[w].payload IN
          tracks' = [tracks EXCEPT ![trackId] =
                       [@ EXCEPT !.storage_key_final =
                                     FinalKey(tracks[trackId].recording_id, trackId),
                                 !.state = "processed"]]
    /\ wpc' = [wpc EXCEPT ![w] = "enqueue"]
    /\ UNCHANGED <<jobs, wfound, wjob, werr, claims, terminated, uploadVars, otherVars>>

\* runJob: job.create of the follow-up asr job
EnqueueAsr(w) ==
    /\ wpc[w] = "enqueue"
    /\ Len(jobs) < MaxJobs
    /\ LET trackId == wjob[w].payload IN
          createJob(tracks[trackId].recording_id, "asr", trackId)
    /\ wpc' = [wpc EXCEPT ![w] = "succeed"]
    /\ UNCHANGED <<tracks, wfound, wjob, werr, claims, terminated, uploadVars, otherVars>>

\* succeed(job.id)
Succeed(w) ==
    /\ wpc[w] = "succeed"
    /\ LET id == wjob[w].id
           newJobs == [jobs EXCEPT ![id] = SucceededRow(@)] IN
          /\ jobs' = newJobs
          /\ terminated' = NowTerminated(newJobs)
    /\ wpc' = [wpc EXCEPT ![w] = "loop"]
    /\ wjob' = [wjob EXCEPT ![w] = NoJob]
    /\ UNCHANGED <<tracks, wfound, werr, claims, uploadVars, otherVars>>

\* fail(job, err) of the transcode and the asr worker
Fail(w) ==
    /\ wpc[w] = "fail"
    /\ WorkerType(w) # "export"
    /\ LET id == wjob[w].id
           newJobs == [jobs EXCEPT ![id] = FailedRow(@, wjob[w], werr[w])] IN
          /\ jobs' = newJobs
          /\ terminated' = NowTerminated(newJobs)
    /\ wpc' = [wpc EXCEPT ![w] = "loop"]
    /\ wjob' = [wjob EXCEPT ![w] = NoJob]
    /\ werr' = [werr EXCEPT ![w] = NoErr]
    /\ UNCHANGED <<tracks, wfound, claims, uploadVars, otherVars>>

\* ------------------------------------------- the loop: stopping and errors
\* What a store call (prisma.$transaction, job.update, job.create) throws
\* when the database cannot be reached.
StoreError == [code |-> "", message |-> "db unavailable"]

\* Where the loop is after its outer catch has logged loopErr: still in the
\* iteration, before the stopping check and the sleep that end it.
AfterLoopError_Exits == "exited"

AfterLoopError == "caught"

\* process.on('SIGINT' / 'SIGTERM'): stopping = true
Signal(w) ==
    /\ WorkerType(w) # "off"
    /\ wpc[w] # "exited"
    /\ ~stopping[w]
    /\ stopping' = [stopping EXCEPT ![w] = TRUE]
    /\ UNCHANGED <<jobs, tracks, workerVars, uploadVars, partsVars, wtype, wloc,
                   exportVars, ipc, segments, execVars, srcVars, xidem,
                   clientVars>>

\* A process whose signal handler ended it at once, whatever the loop is doing.
LoopExit_AtOnce(w) ==
    /\ wpc[w] # "exited"
    /\ WorkerType(w) # "off"
    /\ stopping[w]
    /\ wpc' = [wpc EXCEPT ![w] = "exited"]
    /\ UNCHANGED <<jobs, tracks, wfound, wjob, werr, claims, terminated,
                   uploadVars, otherVars>>

\* `if (stopping) break` at the end of an iteration, or `while (!stopping)`
\* after the sleep: the loop ends and the process logs "stopped".
LoopExit(w) ==
    /\ wpc[w] \in {"loop", "caught"}
    /\ WorkerType(w) # "off"
    /\ stopping[w]
    /\ wpc' = [wpc EXCEPT ![w] = "exited"]
    /\ UNCHANGED <<jobs, tracks, wfound, wjob, werr, claims, terminated,
                   uploadVars, otherVars>>

\* The claim's transaction throws, at its findFirst or at its update: it is
\* rolled back, the claim throws and the outer catch logs the error.
ClaimThrows(w) ==
    /\ \/ wpc[w] = "loop" /\ WorkerType(w) # "off" /\ ~stopping[w]
       \/ wpc[w] = "update"
    /\ wpc' = [wpc EXCEPT ![w] = AfterLoopError]
    /\ wfound' = [wfound EXCEPT ![w] = 0]
    /\ UNCHANGED <<jobs, tracks, wjob, werr, claims, terminated, uploadVars, otherVars>>

\* After the outer catch: `if (stopping) break` is not taken, and
\* sleep(POLL_MS) returns; the loop is at its condition again.
LoopSleep(w) ==
    /\ wpc[w] = "caught"
    /\ ~stopping[w]
    /\ wpc' = [wpc EXCEPT ![w] = "loop"]
    /\ UNCHANGED <<jobs, tracks, wfound, wjob, werr, claims, terminated,
                   uploadVars, otherVars>>

\* runJob: job.create of the follow-up asr job throws; the inner catch has it.
EnqueueAsrThrows(w) ==
    /\ wpc[w] = "enqueue"
    /\ werr' = [werr EXCEPT ![w] = StoreError]
    /\ wpc' = [wpc EXCEPT ![w] = "fail"]
    /\ UNCHANGED <<jobs, tracks, wfound, wjob, claims, terminated, uploadVars, otherVars>>

\* succeed(job.id) throws: the call stands in the inner try, so the inner
\* catch calls fail(job, err) with the store's error.
SucceedThrows(w) ==
    /\ wpc[w] = "succeed"
    /\ werr' = [werr EXCEPT ![w] = StoreError]
    /\ wpc' = [wpc EXCEPT ![w] = "fail"]
    /\ UNCHANGED <<jobs, tracks, wfound, wjob, claims, terminated, uploadVars, otherVars>>

\* fail(job, err) throws inside the inner catch: the outer catch logs the
\* error; the row stays as the claim left it.
FailThrows(w) ==
    /\ wpc[w] = "fail"
    /\ wpc' = [wpc EXCEPT ![w] = AfterLoopError]
    /\ wjob' = [wjob EXCEPT ![w] = NoJob]
    /\ werr' = [werr EXCEPT ![w] = NoErr]
    /\ UNCHANGED <<jobs, tracks, wfound, claims, terminated, uploadVars, otherVars>>

\* --------------------------------------------------------------- asr worker
\* runAsrForTrack returns two segments, whatever the track.
SegmentNumbers == {1, 2}

\* The rows createMany inserts for one run of runJob.  The store gives every
\* inserted row a fresh id; the model names a row by the run that inserted it
\* (the job and the attempt of its claim) and the segment's number.
AsrRows(recordingId, trackId, jobRow) ==
    {[recording_id |-> recordingId, track_id |-> trackId, n |-> n,
      run |-> <<jobRow.id, jobRow.attempts>>] : n \in SegmentNumbers}

\* where: { recording_id, track_id } of deleteMany
SegmentsOf(recordingId, trackId) ==
    {r \in segments : r.recording_id = recordingId /\ r.track_id = trackId}

\* The transcode worker's job.create of an asr job, seen from the asr loops;
\* payload 0 is a payload_json without trackId.
EnqueueAsrJob ==
    /\ Len(jobs) < MaxJobs
    /\ \E payload \in {0} \cup TrackIds :
          createJob(Recording, "asr", payload)
    /\ UNCHANGED <<tracks, workerVars, uploadVars, otherVars>>

\* runJob of the asr worker up to the return of runAsrForTrack: the payload
\* check and the track lookup.
RunJobAsr(w) ==
    /\ wpc[w] = "run"
    /\ WorkerType(w) = "asr"
    /\ LET trackId == wjob[w].payload IN
          \/ /\ trackId = 0
             /\ werr' = [werr EXCEPT ![w] =
                   [code |-> "bad_payload", message |-> "payload_missing_trackId"]]
             /\ wpc' = [wpc EXCEPT ![w] = "fail"]
          \/ /\ trackId # 0
             /\ tracks[trackId].storage_key_final = NoKey
             /\ werr' = [werr EXCEPT ![w] =
                   [code |-> "not_found", message |-> "track_not_found_or_no_final"]]
             /\ wpc' = [wpc EXCEPT ![w] = "fail"]
          \/ /\ trackId # 0
             /\ tracks[trackId].storage_key_final # NoKey
             /\ wpc' = [wpc EXCEPT ![w] = "sdelete"]
             /\ UNCHANGED werr
    /\ UNCHANGED <<jobs, tracks, wfound, wjob, claims, terminated, uploadVars, otherVars>>

\* runJob: transcript_segment.deleteMany for the track's pair, a statement of
\* its own.
AsrDeleteSegments(w) ==
    /\ wpc[w] = "sdelete"
    /\ LET trackId == wjob[w].payload IN
          segments' = segments \ SegmentsOf(tracks[trackId].recording_id, trackId)
    /\ wpc' = [wpc EXCEPT ![w] = "sinsert"]
    /\ UNCHANGED <<jobs, tracks, wfound, wjob, werr, claims, terminated, uploadVars,
                   partsVars, loopVars, wloc, exportVars, ipc, execVars, srcVars, xidem,
                   clientVars>>

\* runJob: transcript_segment.createMany of the run's segments, the next
\* statement; it inserts the rows or throws.
AsrInsertSegments(w) ==
    /\ wpc[w] = "sinsert"
    /\ LET trackId == wjob[w].payload IN
          \/ /\ segments' = segments \cup
                               AsrRows(tracks[trackId].recording_id, trackId, wjob[w])
             /\ wpc' = [wpc EXCEPT ![w] = "succeed"]
             /\ UNCHANGED werr
          \/ /\ werr' = [werr EXCEPT ![w] = StoreError]
             /\ wpc' = [wpc EXCEPT ![w] = "fail"]
             /\ UNCHANGED segments
    /\ UNCHANGED <<jobs, tracks, wfound, wjob, claims, terminated, uploadVars,
                   partsVars, loopVars, wloc, exportVars, ipc, execVars, srcVars, xidem,
                   clientVars>>

\* ------------------------------------------------------- transcode executor
\* runTranscodeForTrack, called by runJob with { id, recording_id,
\* storage_key_raw } of the track; storage_bucket is not passed.
NoExec == [track |-> 0, key |-> NoKey, raw |-> "none", ext |-> "none", failed |-> FALSE]

\* the state the executor calls leave alone
nonExecVars ==
    <<jobs, tracks, workerVars, uploadVars, partsVars, loopVars, wloc, exportVars,
      ipc, segments, srcVars, xidem,
                   clientVars>>

\* A storage key as the string the code builds, cut at its slashes:
\* path.join of completeUploadService, objectKey of initiateUploadService,
\* buildFinalKey.
KeyPath(key) ==
    CASE key.dir = "raw" ->
            <<"recordings", ToString(key.rec), "tracks", ToString(key.id), "raw",
              ToString(key.file) \o ".bin">>
      [] key.dir = "tracks" ->
            <<"recordings", ToString(key.rec), "tracks", ToString(key.file) \o ".raw">>
      [] key.dir = "final" ->
            <<"recordings", ToString(key.rec), "tracks", ToString(key.id), "final",
              ToString(key.file)>>
      [] OTHER -> << >>

\* isLikelyR2Key: key.startsWith('recordings/')
isLikelyR2Key(key) ==
    /\ key # NoKey
    /\ Len(KeyPath(key)) > 1
    /\ KeyPath(key)[1] = "recordings"

\* Where the bytes of a key are: a file under MEDIA_ROOT, an object of the bucket.
InMediaRoot(key) == key \in media
InBucket(key) ==
    \E u \in UploadIds : r2[u] = "completed" /\ uploads[u].object_key = key

\* tmpPath of downloadR2ObjectToTmp (one name per download) and tmpFinal of
\* runTranscodeForTrack (.tmp-final-<track id><ext> in the working directory)
RawTmp(w) == [kind |-> "raw", of |-> w, ext |-> "none"]
FinalTmp(trackId, ext) == [kind |-> "final", of |-> trackId, ext |-> ext]

ExecGoto(w, label) == tpc' = [tpc EXCEPT ![w] = label]

\* The call, the check of storage_key_raw and assertFfmpegAvailable.
TranscodeCall(w) ==
    /\ tpc[w] = "idle"
    /\ \E t \in TrackIds :
          /\ tloc' = [tloc EXCEPT ![w] =
                         [NoExec EXCEPT !.track = t, !.key = tracks[t].storage_key_raw]]
          /\ \/ tracks[t].storage_key_raw = NoKey /\ ExecGoto(w, "threw")
             \/ tracks[t].storage_key_raw # NoKey /\ ExecGoto(w, "resolve")
             \/ tracks[t].storage_key_raw # NoKey /\ ExecGoto(w, "threw")
    /\ UNCHANGED <<nonExecVars, tmpfiles, finals>>

\* resolveRawToLocal: a key that isLikelyR2Key is downloaded to a temp file
\* (GetObject throws when the bucket has no such object, or the transfer
\* fails); any other key is a path under MEDIA_ROOT, which stat must find.
resolveRawToLocal(w) ==
    /\ tpc[w] = "resolve"
    /\ LET key == tloc[w].key IN
          IF isLikelyR2Key(key)
          THEN \/ /\ InBucket(key)
                  /\ tmpfiles' = tmpfiles \cup {RawTmp(w)}
                  /\ tloc' = [tloc EXCEPT ![w].raw = "tmp"]
                  /\ ExecGoto(w, "probe")
               \/ /\ ExecGoto(w, "threw")
                  /\ UNCHANGED <<tmpfiles, tloc>>
          ELSE \/ /\ InMediaRoot(key)
                  /\ tloc' = [tloc EXCEPT ![w].raw = "direct"]
                  /\ ExecGoto(w, "probe")
                  /\ UNCHANGED tmpfiles
               \/ /\ ~InMediaRoot(key)
                  /\ ExecGoto(w, "threw")
                  /\ UNCHANGED <<tmpfiles, tloc>>
    /\ UNCHANGED <<nonExecVars, finals>>

\* ffprobeJson(rawLocal), before the try block: it returns the probe, from
\* which kind and ext follow, or throws.
ffprobeJson(w) ==
    /\ tpc[w] = "probe"
    /\ \/ /\ \E ext \in {"wav", "mp4"} : tloc' = [tloc EXCEPT ![w].ext = ext]
          /\ ExecGoto(w, "convert")
       \/ /\ ExecGoto(w, "threw")
          /\ UNCHANGED tloc
    /\ UNCHANGED <<nonExecVars, tmpfiles, finals>>

\* transcodeAudio / transcodeVideo into tmpFinal, inside the try block.
\* ffmpeg that fails may have written part of the file.
TranscodeToTmp(w) ==
    /\ tpc[w] = "convert"
    /\ LET f == FinalTmp(tloc[w].track, tloc[w].ext) IN
          \/ /\ tmpfiles' = tmpfiles \cup {f}
             /\ ExecGoto(w, "upload")
             /\ UNCHANGED tloc
          \/ /\ tmpfiles' \in {tmpfiles, tmpfiles \cup {f}}
             /\ tloc' = [tloc EXCEPT ![w].failed = TRUE]
             /\ ExecGoto(w, "finally")
    /\ UNCHANGED <<nonExecVars, finals>>

\* uploadFinalToR2(tmpFinal, finalKey, contentType)
uploadFinalToR2(w) ==
    /\ tpc[w] = "upload"
    /\ \/ /\ finals' = finals \cup {FinalKey(Recording, tloc[w].track)}
          /\ UNCHANGED tloc
       \/ /\ tloc' = [tloc EXCEPT ![w].failed = TRUE]
          /\ UNCHANGED finals
    /\ ExecGoto(w, "finally")
    /\ UNCHANGED <<nonExecVars, tmpfiles>>

\* The finally block: unlink(tmpFinal) and cleanupRaw(), which unlinks the
\* downloaded file and does nothing for a path under MEDIA_ROOT; then the
\* function returns its outcome or throws what the try block threw.
TranscodeFinally(w) ==
    /\ tpc[w] = "finally"
    /\ tmpfiles' = (tmpfiles \ {FinalTmp(tloc[w].track, tloc[w].ext)})
                       \ (IF tloc[w].raw = "tmp" THEN {RawTmp(w)} ELSE {})
    /\ ExecGoto(w, IF tloc[w].failed THEN "threw" ELSE "returned")
    /\ UNCHANGED <<nonExecVars, tloc, finals>>

\* The caller has the outcome or the error; the loop may call again.
TranscodeOver(w) ==
    /\ tpc[w] \in {"returned", "threw"}
    /\ ExecGoto(w, "idle")
    /\ tloc' = [tloc EXCEPT ![w] = NoExec]
    /\ UNCHANGED <<nonExecVars, tmpfiles, finals>>

\* ------------------------------------------------------------------ exports
ExportCalls == 1 .. NumRequests
ExportIds == 1 .. Len(exports)
ExportTypes == {"wav", "mp4_captions"}

NoExportRes == [code |-> "none", id |-> 0]
NoExportLog == [seen |-> {}, created |-> 0, enqueued |-> 0]

\* (mutant of ActiveExportStates: a succeeded artifact no longer counts)
ActiveExportStates_NoSucceeded == {"queued", "running"}

\* state: { in: [queued, running, succeeded] } of findActiveExportForRecording
ActiveExportStates == {"queued", "running", "succeeded"}

\* findActiveExportForRecording: the oldest artifact of the recording and type
\* in one of these states, 0 when there is none
MatchingExports(recordingId, type) ==
    {i \in ExportIds : /\ exports[i].recording_id = recordingId
                       /\ exports[i].type = type
                       /\ exports[i].state \in ActiveExportStates}

findActiveExportForRecording(recordingId, type) ==
    IF MatchingExports(recordingId, type) = {} THEN 0
    ELSE CHOOSE i \in MatchingExports(recordingId, type) :
            \A k \in MatchingExports(recordingId, type) : i <= k

\* createExportArtifact: a new row, state queued
NewExport(recordingId, type) ==
    [recording_id |-> recordingId, type |-> type, state |-> "queued",
     storage_key |-> NoKey, last_error |-> NULL]

\* history: the artifacts of the pair that are queued, running or succeeded
\* when the request looks for an existing one
ActiveNow(recordingId, type) ==
    {i \in ExportIds : /\ exports[i].recording_id = recordingId
                       /\ exports[i].type = type
                       /\ exports[i].state \in {"queued", "running", "succeeded"}}

ExportFinish(c, code, id) ==
    /\ xres' = [xres EXCEPT ![c] = [code |-> code, id |-> id]]
    /\ xpc' = [xpc EXCEPT ![c] = "done"]

\* createExportService up to the answer of getRecordingService: the recording
\* is unknown, or owned by somebody else, or the requester may export it.
ExportRequest(c) ==
    /\ xpc[c] = "idle"
    /\ \A d \in ExportCalls : d < c => xpc[d] # "idle"
    /\ \E type \in ExportTypes, acl \in {"ok", "not_found", "forbidden"} :
          /\ xreq' = [xreq EXCEPT ![c] = type]
          /\ IF acl = "ok"
             THEN xpc' = [xpc EXCEPT ![c] = "find"] /\ UNCHANGED xres
             ELSE ExportFinish(c, acl, 0)
    /\ UNCHANGED <<jobs, tracks, workerVars, uploadVars, partsVars, loopVars, laterVars, wloc,
                   exports, xlog, ipc>>

\* findActiveExportForRecording; an existing artifact is the answer
ExportFind(c) ==
    /\ xpc[c] = "find"
    /\ LET existing == findActiveExportForRecording(Recording, xreq[c]) IN
          /\ xlog' = [xlog EXCEPT ![c].seen = ActiveNow(Recording, xreq[c])]
          /\ IF existing # 0
             THEN ExportFinish(c, "ok", existing)
             ELSE xpc' = [xpc EXCEPT ![c] = "create"] /\ UNCHANGED xres
    /\ UNCHANGED <<jobs, tracks, workerVars, uploadVars, partsVars, loopVars, laterVars, wloc,
                   exports, xreq, ipc>>

\* createExportArtifact(recordingId, type)
ExportCreate(c) ==
    /\ xpc[c] = "create"
    /\ exports' = Append(exports, NewExport(Recording, xreq[c]))
    /\ xres' = [xres EXCEPT ![c].id = Len(exports) + 1]
    /\ xlog' = [xlog EXCEPT ![c].created = @ + 1]
    /\ xpc' = [xpc EXCEPT ![c] = "enqueue"]
    /\ UNCHANGED <<jobs, tracks, workerVars, uploadVars, partsVars, loopVars, laterVars, wloc,
                   xreq, ipc>>

\* createJob(recordingId, 'export', { exportId, type }) and the answer
ExportEnqueue(c) ==
    /\ xpc[c] = "enqueue"
    /\ Len(jobs) < MaxJobs
    /\ createJob(Recording, "export", xres[c].id)
    /\ xlog' = [xlog EXCEPT ![c].enqueued = @ + 1]
    /\ ExportFinish(c, "ok", xres[c].id)
    /\ UNCHANGED <<tracks, workerVars, uploadVars, partsVars, loopVars, laterVars, wloc,
                   exports, xreq, ipc>>

\* ---- export worker
\* The idempotency check of runJob, with a mutation that never takes it.
AlreadyExported_Never(artifact) == FALSE

\* artifact.state === succeeded && artifact.storage_key
AlreadyExported(artifact) ==
    artifact.state = "succeeded" /\ artifact.storage_key # NoKey

\* runJob up to the idempotency check: payload check, findUnique of the artifact
RunJobExport(w) ==
    /\ wpc[w] = "run"
    /\ WorkerType(w) = "export"
    /\ LET exportId == wjob[w].payload IN
          IF exportId = 0
          THEN /\ werr' = [werr EXCEPT ![w] =
                     [code |-> "bad_payload", message |-> "payload_missing_exportId"]]
               /\ wpc' = [wpc EXCEPT ![w] = "fail"]
          ELSE IF exportId \notin ExportIds
          THEN /\ werr' = [werr EXCEPT ![w] =
                     [code |-> "not_found", message |-> "export_not_found"]]
               /\ wpc' = [wpc EXCEPT ![w] = "fail"]
          ELSE IF AlreadyExported(exports[exportId])
          THEN wpc' = [wpc EXCEPT ![w] = "succeed"] /\ UNCHANGED werr
          ELSE wpc' = [wpc EXCEPT ![w] = "xmark"] /\ UNCHANGED werr
    /\ xidem' = IF wpc'[w] = "succeed" THEN xidem \cup {wjob[w].id} ELSE xidem
    /\ UNCHANGED <<jobs, tracks, wfound, wjob, claims, terminated, uploadVars,
                   partsVars, loopVars, wloc, exportVars, ipc, segments, execVars,
                   srcVars, clientVars>>

\* runJob: export_artifact.update({ state: running, last_error: null })
ExportMarkRunning(w) ==
    /\ wpc[w] = "xmark"
    /\ exports' = [exports EXCEPT ![wjob[w].payload] =
                      [@ EXCEPT !.state = "running", !.last_error = NULL]]
    /\ wpc' = [wpc EXCEPT ![w] = "xsource"]
    /\ UNCHANGED <<jobs, tracks, wfound, wjob, werr, claims, terminated, uploadVars,
                   partsVars, loopVars, laterVars, wloc, xreqVars, ipc>>

\* track.findMany({ recording_id, state: processed, storage_key_final: not null })
\* in creation order
ProcessedTracksOf(recordingId) ==
    {t \in TrackIds : /\ tracks[t].recording_id = recordingId
                      /\ tracks[t].state = "processed"
                      /\ tracks[t].storage_key_final # NoKey}

\* tracks.find(pred) of a findMany result in creation order: the oldest track
\* of the set, 0 when the set is empty
FirstCreated(ts) ==
    IF ts = {} THEN 0 ELSE CHOOSE t \in ts : \A k \in ts : t <= k

\* the kind an export type takes its source from
WantedKind(type) == IF type = "wav" THEN "audio" ELSE "video"

\* sourceTrack: tracks.find((t) => t.kind === wanted) ?? tracks[0]
SourceTrack(recordingId, type) ==
    LET found == ProcessedTracksOf(recordingId)
        ofKind == {t \in found : tkind[t] = WantedKind(type)} IN
        IF ofKind # {} THEN FirstCreated(ofKind) ELSE FirstCreated(found)

\* runJob: the source track and finalKey; the captions service returns the
\* source key too
ExportPickSource(w) ==
    /\ wpc[w] = "xsource"
    /\ LET recordingId == exports[wjob[w].payload].recording_id IN
          IF ProcessedTracksOf(recordingId) = {}
          THEN /\ werr' = [werr EXCEPT ![w] =
                     [code |-> "no_tracks", message |-> "no_processed_tracks_for_export"]]
               /\ wpc' = [wpc EXCEPT ![w] = "fail"]
               /\ UNCHANGED wloc
          ELSE /\ wloc' = [wloc EXCEPT ![w] =
                     tracks[SourceTrack(recordingId,
                                        exports[wjob[w].payload].type)].storage_key_final]
               /\ wpc' = [wpc EXCEPT ![w] = "xpersist"]
               /\ UNCHANGED werr
    /\ UNCHANGED <<jobs, tracks, wfound, wjob, claims, terminated, uploadVars,
                   partsVars, loopVars, laterVars, exportVars, ipc>>

\* runJob: export_artifact.update({ storage_key, state: succeeded }), which
\* writes the row or throws (store failure)
ExportPersist(w) ==
    /\ wpc[w] = "xpersist"
    /\ \/ /\ exports' = [exports EXCEPT ![wjob[w].payload] =
                            [@ EXCEPT !.storage_key = wloc[w],
                                      !.state = "succeeded",
                                      !.last_error = NULL]]
          /\ wpc' = [wpc EXCEPT ![w] = "succeed"]
          /\ UNCHANGED werr
       \/ /\ werr' = [werr EXCEPT ![w] = [code |-> "", message |-> "db unavailable"]]
          /\ wpc' = [wpc EXCEPT ![w] = "fail"]
          /\ UNCHANGED exports
    /\ wloc' = [wloc EXCEPT ![w] = NoKey]
    /\ UNCHANGED <<jobs, tracks, wfound, wjob, claims, terminated, uploadVars,
                   partsVars, loopVars, laterVars, xreqVars, ipc>>

\* fail(job, err) of the export worker: one transaction writing the job and,
\* unless the error is bad_payload or not_found, the artifact of the payload
FailedExports_Untouched(jobRow, err) == exports

FailedExports(jobRow, err) ==
    IF err.code \notin {"bad_payload", "not_found"} /\ jobRow.payload \in ExportIds
    THEN [exports EXCEPT ![jobRow.payload] =
             [@ EXCEPT !.state = "failed", !.last_error = LastError(err)]]
    ELSE exports

FailExport(w) ==
    /\ wpc[w] = "fail"
    /\ WorkerType(w) = "export"
    /\ LET id == wjob[w].id
           newJobs == [jobs EXCEPT ![id] = FailedRow(@, wjob[w], werr[w])] IN
          /\ jobs' = newJobs
          /\ terminated' = NowTerminated(newJobs)
    /\ exports' = FailedExports(wjob[w], werr[w])
    /\ wpc' = [wpc EXCEPT ![w] = "loop"]
    /\ wjob' = [wjob EXCEPT ![w] = NoJob]
    /\ werr' = [werr EXCEPT ![w] = NoErr]
    /\ UNCHANGED <<tracks, wfound, claims, uploadVars, partsVars, loopVars, laterVars, wloc,
                   xreqVars, ipc>>

\* The transcode worker's track.update({ storage_key_final, state: processed })
\* for track t, seen from the export side; each track is processed once here.
TrackProcessed(t) ==
    /\ tracks[t].storage_key_raw # NoKey
    /\ \A i \in 1 .. Len(porder) : porder[i] # t
    /\ tracks' = [tracks EXCEPT ![t] =
                     [@ EXCEPT !.storage_key_final = FinalKey(tracks[t].recording_id, t),
                               !.state = "processed"]]
    /\ porder' = Append(porder, t)
    /\ UNCHANGED <<jobs, workerVars, uploadVars, partsVars, loopVars, wloc, exportVars,
                   ipc, segments, execVars, tkind, xidem,
                   clientVars>>

\* ------------------------------------------------------- upload finalization
Calls == 1 .. NumCalls

\* Bytes tusd assembled for an upload, or the size of the completed object.
SizeOf(u) == 2 + u

\* The tus id of an upload's data file (the model names it after the upload).
TusIdOf(u) == u

NoLoc == [src |-> 0, got |-> 0, inCatch |-> FALSE]
NoRes == [status |-> "none", code |-> "", bytes |-> 0, key |-> NoKey, already |-> FALSE]
NoLog == [afterSuccess |-> FALSE, storageOps |-> 0, created |-> 0,
          committed |-> FALSE, enqueueFailed |-> FALSE]

\* createTrackAndUpload, and saveMultipartPlan for the multipart transport
InitiatedUpload(u) ==
    [track_id |-> u, protocol |-> ProtocolOf(u), state |-> "in_progress",
     bytes_received |-> 0,
     has_plan |-> (ProtocolOf(u) = "multipart"),
     object_key |-> IF ProtocolOf(u) = "multipart" THEN ObjectKey(Recording, u) ELSE NoKey,
     expected_size |-> IF ProtocolOf(u) = "multipart" THEN SizeOf(u) ELSE 0]

InitiatedTrack(t) ==
    [recording_id |-> Recording, state |-> "recording",
     storage_key_raw |-> NoKey, storage_key_final |-> NoKey]

\* The completion payloads a client can send for upload u: the route picks the
\* service by body.protocol.  bytes / totalBytes are {} when the field is absent.
TusPayloads(u) ==
    [upload : {u}, protocol : {"tus"},
     bytes : {{}, {SizeOf(u)}, {SizeOf(u) + 1}},
     tusUrl : {0, TusIdOf(u)}, totalBytes : {{}}]

MultipartPayloads(u) ==
    [upload : {u}, protocol : {"multipart"},
     bytes : {{}}, tusUrl : {0}, totalBytes : {{}, {SizeOf(u)}}]

Payloads == UNION {TusPayloads(u) \cup MultipartPayloads(u) : u \in UploadIds}

Returned(c) == cres[c].status # "none"
ReturnedOk(c) == cres[c].status = "ok"

AppError(code) == [NoRes EXCEPT !.status = "error", !.code = code]
Ok(bytes, key, already) ==
    [status |-> "ok", code |-> "", bytes |-> bytes, key |-> key, already |-> already]

\* (mutant of AlreadyCompleted: the idempotent path is never taken)
AlreadyCompleted_Never(upload, track) == FALSE

\* The idempotent path of both services: the upload row read by
\* getUploadWithTrack is completed and its track has a raw key.
AlreadyCompleted(upload, track) ==
    upload.state = "completed" /\ track.storage_key_raw # NoKey

\* bytes of the idempotent answer: 0 for the resumable service, the planned
\* expected_size for the multipart service
AlreadyBytes(protocol, upload) ==
    IF protocol = "tus" THEN 0 ELSE upload.expected_size

\* parseTusIdFromUrl, tryGetTusIdFromMapping, findTusDataById and the fallback
\* findTusDataByUploadId: the tus id of the data file found, 0 for none.
\* The .info sidecar of a data file carries the upload id it was created for.
FindTusDataById(tusId) ==
    IF tusId # 0 /\ tusId \in DOMAIN tusd /\ tusd[tusId] THEN tusId ELSE 0

FindTusDataByUploadId(uploadId) ==
    IF \E f \in DOMAIN tusd : tusd[f] /\ f = TusIdOf(uploadId)
    THEN TusIdOf(uploadId) ELSE 0

\* (mutant of LocateSource: no fallback scan of the .info metadata)
LocateSource_ByIdOnly(uploadId, tusUrl) ==
    FindTusDataById(IF tusUrl # 0 THEN tusUrl ELSE tusmap[uploadId])

LocateSource(uploadId, tusUrl) ==
    LET tusId == IF tusUrl # 0 THEN tusUrl ELSE tusmap[uploadId]
        byId == FindTusDataById(tusId) IN
    IF byId # 0 THEN byId ELSE FindTusDataByUploadId(uploadId)

\* (mutant of SizeMismatch: the size validation is skipped)
SizeMismatch_Skipped(bytes, got) == FALSE

\* exp of completeUploadService: the check fails when expectedBytes is given
\* and differs from the size stat() reported
SizeMismatch(bytes, got) == bytes # {} /\ got \notin bytes

\* markUploadCompletedAndSetRawKey is a transaction of two statements, a
\* findUnique and an update; at the store's default isolation (read committed)
\* another transaction can commit between them.  The idempotency guard looks
\* at the rows the findUnique returned: already completed under the same key,
\* the function writes nothing.  It answers code ok in both cases.
MarkGuard(uploadId, relKey) ==
    /\ uploads[uploadId].state = "completed"
    /\ tracks[uploads[uploadId].track_id].storage_key_raw = relKey

\* (mutant of MarkedTracks: the update leaves the track's raw key alone)
MarkedTracks_KeyNotSet(uploadId, relKey) ==
    [tracks EXCEPT ![uploads[uploadId].track_id].state = "uploaded"]

\* The rows its update writes: the upload and, nested, its track.
MarkedUploads(uploadId, relKey) ==
    [uploads EXCEPT ![uploadId].state = "completed"]

MarkedTracks(uploadId, relKey) ==
    [tracks EXCEPT ![uploads[uploadId].track_id] =
        [@ EXCEPT !.state = "uploaded", !.storage_key_raw = relKey]]

\* What a request leaves behind when it returns or throws.
Finish(c, result) ==
    /\ cres' = [cres EXCEPT ![c] = result]
    /\ cpc' = [cpc EXCEPT ![c] = "done"]

Goto(c, label) == cpc' = [cpc EXCEPT ![c] = label]

TargetUpload == uploads[creq.upload]
TargetTrack == tracks[TargetUpload.track_id]
TargetRelKey == RelKey(TargetTrack.recording_id, TargetUpload.track_id, creq.upload)

\* the key the service hands to markUploadCompletedAndSetRawKey
MarkKey == IF creq.protocol = "tus" THEN TargetRelKey ELSE TargetUpload.object_key

\* POST /v1/uploads/:id/complete arrives (the first request, or a retry of it).
CompleteRequest(c) ==
    /\ cpc[c] = "idle"
    /\ \A d \in Calls : d < c => cpc[d] # "idle"
    /\ Goto(c, "lookup")
    /\ clog' = [clog EXCEPT ![c].afterSuccess = \E d \in Calls : ReturnedOk(d)]
    /\ UNCHANGED <<jobs, tracks, workerVars, otherVars, uploads, tusmap, tusd, media, r2,
                   creq, cloc, cres>>

\* ---- completeUploadService (resumable transport)
\* getUploadWithTrack and the idempotent path
TusLookup(c) ==
    /\ cpc[c] = "lookup"
    /\ creq.protocol = "tus"
    /\ IF TargetUpload.state = "none"
       THEN Finish(c, AppError("not_found"))
       ELSE IF AlreadyCompleted(TargetUpload, TargetTrack)
       THEN Finish(c, Ok(AlreadyBytes("tus", TargetUpload),
                         TargetTrack.storage_key_raw, TRUE))
       ELSE Goto(c, "locate") /\ UNCHANGED cres
    /\ UNCHANGED <<jobs, tracks, workerVars, otherVars, uploads, tusmap, tusd, media, r2,
                   creq, cloc, clog>>

\* locate the source file in TUSD_DIR
TusLocate(c) ==
    /\ cpc[c] = "locate"
    /\ LET src == LocateSource(creq.upload, creq.tusUrl) IN
          IF src = 0
          THEN Finish(c, AppError("tusd_not_found")) /\ UNCHANGED cloc
          ELSE /\ cloc' = [cloc EXCEPT ![c].src = src]
               /\ Goto(c, "stat")
               /\ UNCHANGED cres
    /\ UNCHANGED <<jobs, tracks, workerVars, otherVars, uploads, tusmap, tusd, media, r2,
                   creq, clog>>

\* fs.stat(src) and the size validation
TusStat(c) ==
    /\ cpc[c] = "stat"
    /\ LET src == cloc[c].src
           got == SizeOf(src) IN
          IF ~tusd[src]
          THEN Finish(c, AppError("unexpected")) /\ UNCHANGED cloc
          ELSE IF SizeMismatch(creq.bytes, got)
          THEN Finish(c, AppError("size_mismatch")) /\ UNCHANGED cloc
          ELSE /\ cloc' = [cloc EXCEPT ![c].got = got]
               /\ Goto(c, "move")
               /\ UNCHANGED cres
    /\ UNCHANGED <<jobs, tracks, workerVars, otherVars, uploads, tusmap, tusd, media, r2,
                   creq, clog>>

\* fs.rename(src, dest); when it fails the code falls back to copy + unlink.
\* rename fails when src is gone, or for a reason of the file system (EXDEV).
TusRename(c) ==
    /\ cpc[c] = "move"
    /\ LET src == cloc[c].src IN
          \/ /\ tusd[src]
             /\ tusd' = [tusd EXCEPT ![src] = FALSE]
             /\ media' = media \cup {TargetRelKey}
             /\ clog' = [clog EXCEPT ![c].storageOps = @ + 1]
             /\ Goto(c, "mark")
          \/ /\ Goto(c, "copy")
             /\ UNCHANGED <<tusd, media, clog>>
    /\ UNCHANGED <<jobs, tracks, workerVars, otherVars, uploads, tusmap, r2, creq, cloc, cres>>

\* fs.copyFile(src, dest) of the fallback
TusCopy(c) ==
    /\ cpc[c] = "copy"
    /\ IF tusd[cloc[c].src]
       THEN /\ media' = media \cup {TargetRelKey}
            /\ clog' = [clog EXCEPT ![c].storageOps = @ + 1]
            /\ Goto(c, "unlink")
            /\ UNCHANGED cres
       ELSE /\ Finish(c, AppError("fs_move_failed"))
            /\ UNCHANGED <<media, clog>>
    /\ UNCHANGED <<jobs, tracks, workerVars, otherVars, uploads, tusmap, tusd, r2, creq, cloc>>

\* fs.unlink(src) of the fallback
TusUnlink(c) ==
    /\ cpc[c] = "unlink"
    /\ IF tusd[cloc[c].src]
       THEN /\ tusd' = [tusd EXCEPT ![cloc[c].src] = FALSE]
            /\ Goto(c, "mark")
            /\ UNCHANGED cres
       ELSE /\ Finish(c, AppError("fs_move_failed"))
            /\ UNCHANGED tusd
    /\ UNCHANGED <<jobs, tracks, workerVars, otherVars, uploads, tusmap, media, r2,
                   creq, cloc, clog>>

\* markUploadCompletedAndSetRawKey(uploadId, relKey): the findUnique and the
\* idempotency guard
TusMark(c) ==
    /\ cpc[c] = "mark"
    /\ creq.protocol = "tus"
    /\ IF MarkGuard(creq.upload, TargetRelKey)
       THEN Goto(c, "enqueue") /\ clog' = [clog EXCEPT ![c].committed = TRUE]
       ELSE Goto(c, "update") /\ UNCHANGED clog
    /\ UNCHANGED <<jobs, tracks, workerVars, otherVars, uploads, tusmap, tusd, media,
                   r2, creq, cloc, cres>>

\* markUploadCompletedAndSetRawKey: the update and the commit (both services)
MarkUpdate(c) ==
    /\ cpc[c] = "update"
    /\ uploads' = MarkedUploads(creq.upload, MarkKey)
    /\ tracks' = MarkedTracks(creq.upload, MarkKey)
    /\ clog' = [clog EXCEPT ![c].committed = TRUE]
    /\ Goto(c, "enqueue")
    /\ UNCHANGED <<jobs, workerVars, otherVars, tusmap, tusd, media, r2, creq, cloc, cres>>

\* markUploadCompletedAndSetRawKey throws (the store cannot be reached): the
\* catch of the resumable service turns it into db_update_failed.
MarkThrows(c) ==
    /\ cpc[c] \in {"mark", "update"}
    /\ creq.protocol = "tus"
    /\ Finish(c, AppError("db_update_failed"))
    /\ UNCHANGED <<jobs, tracks, workerVars, otherVars, uploads, tusmap, tusd, media, r2,
                   creq, cloc, clog>>

\* (mutant of TusEnqueueFailed: the createJob error is swallowed)
TusEnqueueFailed_Swallowed == [NoRes EXCEPT !.status = "ok"]

\* What the resumable service answers when createJob threw
TusEnqueueFailed == AppError("job_enqueue_failed")

\* createJob(track.recording_id, 'transcode', { trackId }) and the return
TusEnqueue(c) ==
    /\ cpc[c] = "enqueue"
    /\ creq.protocol = "tus"
    /\ \/ /\ Len(jobs) < MaxJobs
          /\ createJob(TargetTrack.recording_id, "transcode", TargetUpload.track_id)
          /\ clog' = [clog EXCEPT ![c].created = @ + 1]
          /\ Finish(c, Ok(cloc[c].got, TargetRelKey, FALSE))
       \/ /\ clog' = [clog EXCEPT ![c].enqueueFailed = TRUE]
          /\ Finish(c, TusEnqueueFailed)
          /\ UNCHANGED jobs
    /\ UNCHANGED <<tracks, workerVars, otherVars, uploads, tusmap, tusd, media, r2, creq, cloc>>

\* ---- completeMultipartUploadService (cloud multipart transport)
\* getUploadWithTrack, the idempotent path and the check of the saved plan
MpLookup(c) ==
    /\ cpc[c] = "lookup"
    /\ creq.protocol = "multipart"
    /\ IF TargetUpload.state = "none"
       THEN Finish(c, AppError("not_found"))
       ELSE IF AlreadyCompleted(TargetUpload, TargetTrack)
       THEN Finish(c, Ok(AlreadyBytes("multipart", TargetUpload),
                         TargetTrack.storage_key_raw, TRUE))
       ELSE IF ~TargetUpload.has_plan
       THEN Finish(c, AppError("invalid_state"))
       ELSE Goto(c, "complete") /\ UNCHANGED cres
    /\ UNCHANGED <<jobs, tracks, workerVars, otherVars, uploads, tusmap, tusd, media, r2,
                   creq, cloc, clog>>

\* r2.send(CompleteMultipartUploadCommand).  The storage answers or throws; for
\* a session that is already completed it may answer the repeated completion
\* with success again, or reject it.
MpComplete(c) ==
    /\ cpc[c] = "complete"
    /\ \/ /\ r2' = [r2 EXCEPT ![creq.upload] = "completed"]
          /\ clog' = [clog EXCEPT ![c].storageOps = @ + 1]
          /\ Goto(c, "head")
          /\ UNCHANGED cres
       \/ /\ Finish(c, AppError("unexpected"))
          /\ UNCHANGED <<r2, clog>>
    /\ UNCHANGED <<jobs, tracks, workerVars, otherVars, uploads, tusmap, tusd, media,
                   creq, cloc>>

\* r2.send(HeadObjectCommand): ContentLength, or a throw that enters the catch
MpHead(c) ==
    /\ cpc[c] = "head"
    /\ \/ /\ cloc' = [cloc EXCEPT ![c].got = SizeOf(creq.upload)]
       \/ /\ cloc' = [cloc EXCEPT ![c].inCatch = TRUE]
    /\ Goto(c, "mark")
    /\ UNCHANGED <<jobs, tracks, workerVars, otherVars, uploads, tusmap, tusd, media, r2,
                   creq, cres, clog>>

\* markUploadCompletedAndSetRawKey(uploadId, objectKey), in the try or the
\* catch: the findUnique and the idempotency guard
MpMark(c) ==
    /\ cpc[c] = "mark"
    /\ creq.protocol = "multipart"
    /\ IF MarkGuard(creq.upload, TargetUpload.object_key)
       THEN Goto(c, "enqueue") /\ clog' = [clog EXCEPT ![c].committed = TRUE]
       ELSE Goto(c, "update") /\ UNCHANGED clog
    /\ UNCHANGED <<jobs, tracks, workerVars, otherVars, uploads, tusmap, tusd, media,
                   r2, creq, cloc, cres>>

\* bytes of the multipart answer: ContentLength in the try, totalBytes ?? 0 in
\* the catch
MpBytes(loc, totalBytes) ==
    IF ~loc.inCatch THEN loc.got
    ELSE IF totalBytes = {} THEN 0
    ELSE CHOOSE n \in totalBytes : TRUE

\* createJob in the try: a throw enters the catch, which marks and enqueues
\* again.  createJob in the catch: a throw leaves the service as 'unexpected'.
MpEnqueue(c) ==
    /\ cpc[c] = "enqueue"
    /\ creq.protocol = "multipart"
    /\ \/ /\ Len(jobs) < MaxJobs
          /\ createJob(TargetTrack.recording_id, "transcode", TargetUpload.track_id)
          /\ clog' = [clog EXCEPT ![c].created = @ + 1]
          /\ Finish(c, Ok(MpBytes(cloc[c], creq.totalBytes),
                          TargetUpload.object_key, FALSE))
          /\ UNCHANGED cloc
       \/ /\ ~cloc[c].inCatch
          /\ cloc' = [cloc EXCEPT ![c].inCatch = TRUE]
          /\ clog' = [clog EXCEPT ![c].enqueueFailed = TRUE]
          /\ Goto(c, "mark")
          /\ UNCHANGED <<jobs, cres>>
       \/ /\ cloc[c].inCatch
          /\ clog' = [clog EXCEPT ![c].enqueueFailed = TRUE]
          /\ Finish(c, AppError("unexpected"))
          /\ UNCHANGED <<jobs, cloc>>
    /\ UNCHANGED <<tracks, workerVars, otherVars, uploads, tusmap, tusd, media, r2, creq>>

\* --------------------------------------------------------- upload initiation
\* The rows of an upload that has not been initiated: getUploadWithTrack
\* returns null for it.
AbsentUpload(u) ==
    [InitiatedUpload(u) EXCEPT !.state = "none", !.has_plan = FALSE,
                               !.object_key = NoKey, !.expected_size = 0]

AbsentTrack(t) == [InitiatedTrack(t) EXCEPT !.state = "none"]

\* createTrackAndUpload: track recording, upload in_progress, no plan yet
CreatedUpload(u) == [AbsentUpload(u) EXCEPT !.state = "in_progress"]

\* saveMultipartPlan: the plan fields, and state: 'in_progress'
PlannedUpload(row, u) ==
    [row EXCEPT !.has_plan = TRUE, !.object_key = ObjectKey(Recording, u),
                !.expected_size = SizeOf(u), !.state = "in_progress"]

\* initiateUploadService up to the size check: createTrackAndUpload; the
\* resumable transport answers here; multipart without size throws bad_request.
\* The client of a run initiates the upload it goes on to complete.
InitiateCreate(u) ==
    /\ ipc[u] = "idle"
    /\ u = creq.upload
    /\ tracks' = [tracks EXCEPT ![u] = InitiatedTrack(u)]
    /\ uploads' = [uploads EXCEPT ![u] = CreatedUpload(u)]
    /\ \E size \in {0, SizeOf(u)} :
          ipc' = [ipc EXCEPT ![u] =
                     IF ProtocolOf(u) = "tus" THEN "done"
                     ELSE IF size = 0 THEN "failed" ELSE "r2create"]
    /\ UNCHANGED <<jobs, workerVars, tusmap, tusd, media, r2, cpc, creq, cloc, cres,
                   clog, partsVars, loopVars, laterVars, wloc, exportVars>>

\* r2.send(CreateMultipartUploadCommand): a session, or a throw
InitiateR2Create(u) ==
    /\ ipc[u] = "r2create"
    /\ \/ /\ r2' = [r2 EXCEPT ![u] = "open"]
          /\ ipc' = [ipc EXCEPT ![u] = "saveplan"]
       \/ /\ ipc' = [ipc EXCEPT ![u] = "failed"]
          /\ UNCHANGED r2
    /\ UNCHANGED <<jobs, tracks, workerVars, uploads, tusmap, tusd, media, cpc, creq,
                   cloc, cres, clog, partsVars, loopVars, laterVars, wloc, exportVars>>

\* saveMultipartPlan and the response
InitiateSavePlan(u) ==
    /\ ipc[u] = "saveplan"
    /\ uploads' = [uploads EXCEPT ![u] = PlannedUpload(@, u)]
    /\ ipc' = [ipc EXCEPT ![u] = "done"]
    /\ UNCHANGED <<jobs, tracks, workerVars, tusmap, tusd, media, r2, cpc, creq, cloc,
                   cres, clog, partsVars, loopVars, laterVars, wloc, exportVars>>

\* The client sends the bytes of an initiated resumable upload to tusd, which
\* assembles the data file; the post-create hook saves the tus id mapping, or
\* fails to (the hook logs the error and continues).
TusdUpload(u) ==
    /\ ipc[u] = "done"
    /\ ProtocolOf(u) = "tus"
    /\ uploads[u].state = "in_progress"
    /\ ~tusd[TusIdOf(u)]
    /\ RelKey(Recording, u, u) \notin media
    /\ tusd' = [tusd EXCEPT ![TusIdOf(u)] = TRUE]
    /\ \E saved \in {0, TusIdOf(u)} : tusmap' = [tusmap EXCEPT ![u] = saved]
    /\ UNCHANGED <<jobs, tracks, workerVars, uploads, media, r2, cpc, creq, cloc, cres,
                   clog, otherVars>>

\* ------------------------------------------------- multipart parts ordering
\* The ETag headers the storage answers to the part PUTs.
ETags == {"e1", "e2"}

\* uploadMultipartFile gives part i of n the partNumber i and the ETag of its
\* PUT; the workers push their results as they finish, so the list the client
\* reports is one of the orders of these n parts.
PartsLists ==
    UNION {{s \in [1 .. n -> [partNumber : 1 .. n, etag : ETags]] :
               \A i, j \in 1 .. n : i # j => s[i].partNumber # s[j].partNumber} :
           n \in 0 .. MaxParts}

\* (mutant of ComparePartNumber: the comparator is reversed)
ComparePartNumber_Reversed(a, b) == b.partNumber - a.partNumber

\* the comparator of the sort: (a, b) => a.partNumber - b.partNumber
ComparePartNumber(a, b) == a.partNumber - b.partNumber

\* Array.prototype.sort with that comparator (a stable sort): p goes in front of
\* the first element it compares below.
RECURSIVE InsertPart(_, _)
InsertPart(p, s) ==
    IF s = << >> THEN <<p>>
    ELSE IF ComparePartNumber(p, Head(s)) < 0 THEN <<p>> \o s
    ELSE <<Head(s)>> \o InsertPart(p, Tail(s))

RECURSIVE SortParts(_)
SortParts(s) ==
    IF s = << >> THEN << >>
    ELSE InsertPart(s[Len(s)], SortParts(SubSeq(s, 1, Len(s) - 1)))

\* sorted.map(p => ({ PartNumber: p.partNumber, ETag: p.etag }))
CompletedParts(s) ==
    [i \in 1 .. Len(s) |->
        [PartNumber |-> SortParts(s)[i].partNumber, ETag |-> SortParts(s)[i].etag]]

\* completeMultipartUploadService: parts.length === 0 throws bad_request
MpRejectParts ==
    /\ pres = "none"
    /\ Len(parts) = 0
    /\ pres' = "bad_request"
    /\ UNCHANGED <<jobs, tracks, workerVars, uploadVars, parts, r2parts, loopVars, laterVars, wloc,
                   exportVars, ipc>>

\* completeMultipartUploadService: the parts as CompleteMultipartUploadCommand
\* carries them to the storage
MpSendParts ==
    /\ pres = "none"
    /\ Len(parts) > 0
    /\ r2parts' = CompletedParts(parts)
    /\ pres' = "sent"
    /\ UNCHANGED <<jobs, tracks, workerVars, uploadVars, parts, loopVars, laterVars, wloc,
                   exportVars, ipc>>

\* ------------------------------------------------------------ specifications
\* The workers' specification starts with the uploads of the resumable
\* transport completed (their tracks uploaded, raw file in MEDIA_ROOT) and the
\* multipart uploads still in progress, an empty job table and idle loops.
WorkerInitUpload(u) ==
    IF ProtocolOf(u) = "tus"
    THEN [InitiatedUpload(u) EXCEPT !.state = "completed"]
    ELSE InitiatedUpload(u)

WorkerInitTrack(t) ==
    IF ProtocolOf(t) = "tus"
    THEN [InitiatedTrack(t) EXCEPT !.state = "uploaded",
                                   !.storage_key_raw = RelKey(Recording, t, t)]
    ELSE InitiatedTrack(t)

InitWorkers ==
    /\ wpc = [w \in Workers |-> "loop"]
    /\ wfound = [w \in Workers |-> 0]
    /\ wjob = [w \in Workers |-> NoJob]
    /\ werr = [w \in Workers |-> NoErr]
    /\ claims = [i \in 1 .. MaxJobs |-> 0]
    /\ terminated = {}

InitCalls ==
    /\ cpc = [c \in Calls |-> "idle"]
    /\ cloc = [c \in Calls |-> NoLoc]
    /\ cres = [c \in Calls |-> NoRes]
    /\ clog = [c \in Calls |-> NoLog]

\* No multipart completion has handed a parts list to the service.
InitParts ==
    /\ parts = << >>
    /\ r2parts = << >>
    /\ pres = "none"

\* The worker processes ws started as loops of one type, none stopping.
InitLoops(type, ws) ==
    /\ wtype = [w \in Workers |-> IF w \in ws THEN type ELSE "off"]
    /\ stopping = [w \in Workers |-> FALSE]
    /\ wloc = [w \in Workers |-> NoKey]

\* No export has been requested.
InitExports ==
    /\ exports = << >>
    /\ xpc = [c \in ExportCalls |-> "idle"]
    /\ xreq = [c \in ExportCalls |-> "none"]
    /\ xres = [c \in ExportCalls |-> NoExportRes]
    /\ xlog = [c \in ExportCalls |-> NoExportLog]

\* Every upload's initiation has returned.
InitInitiated ==
    /\ ipc = [u \in UploadIds |-> "done"]

\* No transcript has been stored.
InitSegments ==
    /\ segments = {}

\* Every track was created as a video track.
InitKinds ==
    /\ tkind = [t \in TrackIds |-> "video"]
    /\ porder = << >>
    /\ xidem = {}

\* No runTranscodeForTrack call has been made, and no temp file is left.
InitExec ==
    /\ tpc = [w \in Workers |-> "idle"]
    /\ tloc = [w \in Workers |-> NoExec]
    /\ tmpfiles = {}
    /\ finals = {}

\* ------------------------------------------------------- multipart plan
\* Sizes are counted in a unit of which MiB make one mebibyte.
MiB == 1
MIN_PART == 5 * MiB
DEFAULT_PART == 8 * MiB

\* The sizes a request may state: up to MaxPlanParts parts of the minimum
\* size, and any part size up to a unit above the default.  0 stands for a
\* field the body does not carry (Number(undefined ?? 0)).
MaxPlanParts == 4
TotalSizes == 0 .. (MaxPlanParts * MIN_PART)
RequestedSizes == 0 .. (DEFAULT_PART + MiB)

Max2(a, b) == IF a >= b THEN a ELSE b
Min2(a, b) == IF a <= b THEN a ELSE b

\* (mutant of Ceil: the quotient is rounded down)
Ceil_Floor(a, b) == a \div b

\* Math.ceil(a / b), for a >= 0 and b > 0
Ceil(a, b) == IF a % b = 0 THEN a \div b ELSE (a \div b) + 1

NoPlanRequest == [size |-> 0, partSize |-> 0]
NoPlan == [status |-> "none", partSize |-> 0, presignedUrls |-> << >>,
           presignMeta |-> << >>]

\* Math.max(requestedPartSize || DEFAULT_PART, MIN_PART)
PartSizeOf(requestedPartSize) ==
    Max2(IF requestedPartSize # 0 THEN requestedPartSize ELSE DEFAULT_PART, MIN_PART)

\* The multipart branch of initiateUploadService: the size check, partSize,
\* totalParts and the presign loop.  A presigned URL is written as the
\* PartNumber it was signed for; the loop's i is the index here less one.
MultipartPlan(totalSize, requestedPartSize) ==
    IF totalSize = 0
    THEN [NoPlan EXCEPT !.status = "bad_request"]
    ELSE LET partSize == PartSizeOf(requestedPartSize)
             totalParts == Ceil(totalSize, partSize) IN
         [status |-> "ok",
          partSize |-> partSize,
          presignedUrls |-> [n \in 1 .. totalParts |-> n],
          presignMeta |->
              [n \in 1 .. totalParts |->
                  [partNumber |-> n,
                   size |-> Min2(n * partSize, totalSize) - ((n - 1) * partSize)]]]

\* initiateUploadService called with protocol multipart
PlanMultipart ==
    /\ mplan.status = "none"
    /\ \E size \in TotalSizes, partSize \in RequestedSizes :
          /\ mreq' = [size |-> size, partSize |-> partSize]
          /\ mplan' = MultipartPlan(size, partSize)
    /\ UNCHANGED <<jobs, tracks, workerVars, uploadVars, partsVars, loopVars, wloc,
                   exportVars, ipc, segments, execVars, srcVars, xidem, poolVars, hookVars,
                   sigVars>>

\* No multipart plan has been asked for.
InitPlan ==
    /\ mreq = NoPlanRequest
    /\ mplan = NoPlan

\* ---------------------------------------------- client multipart uploader
\* uploadMultipartFile(file, presignedUrls, partSize, onProgress, concurrency,
\* maxRetries): the number of presigned URLs, the size of the pool and the
\* retries of one part are kept small.
MaxUrls == 3
MaxConcurrency == 2
MaxRetries == 1

PoolWorkers == 1 .. MaxConcurrency
PartNumbers == 1 .. MaxUrls

NoUploadCall == [urls |-> 0, concurrency |-> 0, maxRetries |-> 0]

\* Array.from({ length: Math.min(concurrency, parts.length) }, ...)
PoolSize(concurrency, urls) == Min2(concurrency, urls)

\* (mutant of SortResults: the results are returned in the order of the pushes)
SortResults_AsPushed(results) == results

\* results.sort((a, b) => a.partNumber - b.partNumber)
SortResults(results) == SortParts(results)

\* uploadMultipartFile up to its await: parts is built, and Array.from starts
\* the pool; each worker runs its loop test, takes parts[i++] and calls run(),
\* which goes as far as its fetch, before the next worker is started.
UploadStart ==
    /\ ustatus = "idle"
    /\ \E urls \in 0 .. MaxUrls, concurrency \in PoolWorkers, maxRetries \in 0 .. MaxRetries :
          LET started == 1 .. PoolSize(concurrency, urls) IN
          /\ ureq' = [urls |-> urls, concurrency |-> concurrency,
                      maxRetries |-> maxRetries]
          /\ ui' = PoolSize(concurrency, urls)
          /\ upc' = [k \in PoolWorkers |-> IF k \in started THEN "put" ELSE "off"]
          /\ upart' = [k \in PoolWorkers |-> IF k \in started THEN k ELSE 0]
          /\ utakers' = [n \in PartNumbers |-> IF n \in started THEN {n} ELSE {}]
          /\ uputs' = [n \in PartNumbers |-> IF n \in started THEN 1 ELSE 0]
    /\ ustatus' = "pending"
    /\ UNCHANGED <<jobs, tracks, workerVars, uploadVars, partsVars, loopVars, wloc,
                   exportVars, ipc, segments, execVars, srcVars, xidem, planVars, hookVars, sigVars,
                   uattempt, uresults, ureturn>>

\* run(): the PUT is answered ok with an ETag; the worker pushes the result,
\* tests i < parts.length and takes the next part, or ends.
PutOk(k) ==
    /\ upc[k] = "put"
    /\ \E etag \in ETags :
          uresults' = Append(uresults, [partNumber |-> upart[k], etag |-> etag])
    /\ IF ui < ureq.urls
       THEN /\ ui' = ui + 1
            /\ upart' = [upart EXCEPT ![k] = ui + 1]
            /\ utakers' = [utakers EXCEPT ![ui + 1] = @ \cup {k}]
            /\ uputs' = [uputs EXCEPT ![ui + 1] = @ + 1]
            /\ UNCHANGED upc
       ELSE /\ upc' = [upc EXCEPT ![k] = "done"]
            /\ upart' = [upart EXCEPT ![k] = 0]
            /\ UNCHANGED <<ui, utakers, uputs>>
    /\ uattempt' = [uattempt EXCEPT ![k] = 0]
    /\ UNCHANGED <<jobs, tracks, workerVars, uploadVars, partsVars, loopVars, wloc,
                   exportVars, ipc, segments, execVars, srcVars, xidem, planVars, hookVars, sigVars,
                   ureq, ustatus, ureturn>>

\* (mutant of RetriesExhausted: one retry more than maxRetries)
RetriesExhausted_OneMore(attempt, maxRetries) == attempt > maxRetries + 1

\* the catch of run(): if (++attempt > maxRetries) throw e
RetriesExhausted(attempt, maxRetries) == attempt > maxRetries

\* run(): fetch throws, the answer is not ok or carries no ETag; the catch
\* waits and tries again, or throws once attempt exceeds maxRetries, which
\* ends the worker and rejects the promise of Promise.all.
PutFail(k) ==
    /\ upc[k] = "put"
    /\ uattempt' = [uattempt EXCEPT ![k] = @ + 1]
    /\ IF RetriesExhausted(uattempt[k] + 1, ureq.maxRetries)
       THEN /\ upc' = [upc EXCEPT ![k] = "thrown"]
            /\ ustatus' = IF ustatus = "pending" THEN "rejected" ELSE ustatus
       ELSE /\ upc' = [upc EXCEPT ![k] = "backoff"]
            /\ UNCHANGED ustatus
    /\ UNCHANGED <<jobs, tracks, workerVars, uploadVars, partsVars, loopVars, wloc,
                   exportVars, ipc, segments, execVars, srcVars, xidem, planVars, hookVars, sigVars,
                   ureq, ui, upart, uresults, utakers, uputs, ureturn>>

\* run(): the timer of setTimeout(r, 300 * attempt) fires and fetch is called again
BackoffOver(k) ==
    /\ upc[k] = "backoff"
    /\ upc' = [upc EXCEPT ![k] = "put"]
    /\ uputs' = [uputs EXCEPT ![upart[k]] = @ + 1]
    /\ UNCHANGED <<jobs, tracks, workerVars, uploadVars, partsVars, loopVars, wloc,
                   exportVars, ipc, segments, execVars, srcVars, xidem, planVars, hookVars, sigVars,
                   ureq, ui, upart, uattempt, uresults, utakers, ustatus, ureturn>>

\* await Promise.all(workers) is over, every worker having ended: the sorted
\* results are returned.
PoolResolve ==
    /\ ustatus = "pending"
    /\ \A k \in PoolWorkers : upc[k] \in {"off", "done"}
    /\ ustatus' = "resolved"
    /\ ureturn' = SortResults(uresults)
    /\ UNCHANGED <<jobs, tracks, workerVars, uploadVars, partsVars, loopVars, wloc,
                   exportVars, ipc, segments, execVars, srcVars, xidem, planVars, hookVars, sigVars,
                   ureq, ui, upc, upart, uattempt, uresults, utakers, uputs>>

\* uploadMultipartFile has not been called.
InitPool ==
    /\ ureq = NoUploadCall
    /\ ui = 0
    /\ upc = [k \in PoolWorkers |-> "off"]
    /\ upart = [k \in PoolWorkers |-> 0]
    /\ uattempt = [k \in PoolWorkers |-> 0]
    /\ uresults = << >>
    /\ utakers = [n \in PartNumbers |-> {}]
    /\ uputs = [n \in PartNumbers |-> 0]
    /\ ustatus = "idle"
    /\ ureturn = << >>

\* --------------------------------------------------------- tusd hook handler
\* The tus ids tusd gives to the uploads it creates, and the upload ids a
\* hook's metadata may carry: those of the resumable uploads and one of no
\* upload row.
MaxTusIds == 2
HookTusIds == 1 .. MaxTusIds
HookUploadIds == TusUploads \cup {2 * NumUploads + 1}
HookNames == {"", "pre-create", "post-create", "post-finish"}

NoHook == [header |-> "", type |-> "", tusId |-> 0, uploadId |-> 0]
NoHookAnswer == [status |-> 0, Action |-> ""]

\* hookHeader || (typeof body?.Type === 'string' ? body.Type : '')
HookName(req) == IF req.header # "" THEN req.header ELSE req.type

\* (mutant of UpsertTusMap: a create, which leaves an existing row as it is)
UpsertTusMap_CreateOnly(map, uploadId, tusId) ==
    IF map[uploadId] = 0 THEN [map EXCEPT ![uploadId] = tusId] ELSE map

\* saveTusMapping: uploadTusMap.upsert by uploadId (the primary key)
UpsertTusMap(map, uploadId, tusId) == [map EXCEPT ![uploadId] = tusId]

\* The upsert is refused by the store: upload_id refers to no upload row, or
\* tus_id (unique) is held by the row of another upload.
UpsertRefused(map, uploadId, tusId) ==
    \/ uploadId \notin UploadIds
    \/ \E u \in UploadIds : u # uploadId /\ map[u] = tusId

\* POST /tusd/hooks.  0 stands for a tus id or an upload-id the body does
\* not carry.
TusdHook ==
    \E header \in HookNames, type \in HookNames,
       tusId \in {0} \cup HookTusIds, uploadId \in {0} \cup HookUploadIds :
        LET req == [header |-> header, type |-> type, tusId |-> tusId,
                    uploadId |-> uploadId] IN
        /\ hreq' = req
        /\ IF HookName(req) # "post-create"
           THEN hlog' = "" /\ UNCHANGED tusmap
           ELSE IF tusId = 0 \/ uploadId = 0
           THEN hlog' = "missing" /\ UNCHANGED tusmap
           ELSE \/ /\ ~UpsertRefused(tusmap, uploadId, tusId)
                   /\ tusmap' = UpsertTusMap(tusmap, uploadId, tusId)
                   /\ hlog' = "saved"
                \/ /\ hlog' = "failed"      \* saveTusMapping threw
                   /\ UNCHANGED tusmap
        /\ hres' = [status |-> 200, Action |-> "continue"]
        /\ UNCHANGED <<jobs, tracks, workerVars, uploads, tusd, media, r2, cpc, creq, cloc,
                       cres, clog, partsVars, loopVars, wloc, exportVars, ipc, segments,
                       execVars, srcVars, xidem, planVars, poolVars,
                       sigVars>>

\* No hook has been received.
InitHooks ==
    /\ hreq = NoHook
    /\ hres = NoHookAnswer
    /\ hlog = ""

\* ------------------------------------------------ studio signaling registry

NumSockets == 2
NumRooms == 2
NumPeerIds == 2

Sockets == 1..NumSockets
RoomIds == 1..NumRooms
PeerIds == 1..NumPeerIds
Roles == {"host", "guest"}

\* currentRoomId and currentPeerId of a connection that has not joined; 0
\* stands for null
NoCurrent == [roomId |-> 0, peerId |-> 0]

\* Map.prototype.set and Map.prototype.delete
MapSet(m, k, v) == [x \in DOMAIN m \cup {k} |-> IF x = k THEN v ELSE m[x]]

MapDelete(m, k) == [x \in DOMAIN m \ {k} |-> m[x]]

\* the sockets of the peers of a room other than one peer id
OtherSockets(room, peerId) ==
    {room[q].socket : q \in DOMAIN room \ {peerId}}

\* safeSend of one message type to a set of sockets; a send to a socket that
\* is closed throws and is only logged
SafeSend(sent, targets, type) ==
    [s \in Sockets |->
        IF s \in targets /\ wopen[s] = "open" THEN type ELSE sent[s]]

\* the registry after room.delete(peerId) and the removal of an empty room
RoomDelete(rs, roomId, peerId) ==
    LET room == MapDelete(rs[roomId], peerId)
    IN  IF DOMAIN room = {}
        THEN MapDelete(rs, roomId)
        ELSE MapSet(rs, roomId, room)

\* case 'join'
WsJoin(s) ==
    /\ wopen[s] = "open"
    /\ \E roomId \in RoomIds, peerId \in PeerIds, role \in Roles :
          LET old  == IF roomId \in DOMAIN rooms THEN rooms[roomId] ELSE << >>
              peer == [peerId |-> peerId, role |-> role, socket |-> s]
              room == MapSet(old, peerId, peer)
          IN  /\ wcur' = [wcur EXCEPT ![s] = [roomId |-> roomId, peerId |-> peerId]]
              /\ rooms' = MapSet(rooms, roomId, room)
              /\ wsent' = SafeSend(SafeSend(wsent, {s}, "joined"),
                                   OtherSockets(room, peerId), "peer-joined")
    /\ UNCHANGED wopen
    /\ UNCHANGED <<jobs, tracks, workerVars, uploadVars, partsVars, loopVars, wloc,
                   exportVars, ipc, segments, execVars, srcVars, xidem, planVars,
                   poolVars, hookVars>>

\* case 'signal'
WsSignal(s) ==
    /\ wopen[s] = "open"
    /\ \E roomId \in RoomIds, peerId \in PeerIds, targetPeerId \in PeerIds \cup {0} :
          IF roomId \notin DOMAIN rooms
          THEN wsent' = SafeSend(wsent, {s}, "error")
          ELSE IF targetPeerId # 0
               THEN IF targetPeerId \in DOMAIN rooms[roomId]
                    THEN wsent' = SafeSend(wsent, {rooms[roomId][targetPeerId].socket},
                                           "signal")
                    ELSE wsent' = SafeSend(wsent, {s}, "error")
               ELSE wsent' = SafeSend(wsent, OtherSockets(rooms[roomId], peerId),
                                      "signal")
    /\ UNCHANGED <<rooms, wcur, wopen>>
    /\ UNCHANGED <<jobs, tracks, workerVars, uploadVars, partsVars, loopVars, wloc,
                   exportVars, ipc, segments, execVars, srcVars, xidem, planVars,
                   poolVars, hookVars>>

\* case 'leave': the room and the peer are the ones the message names
WsLeave(s) ==
    /\ wopen[s] = "open"
    /\ \E roomId \in RoomIds, peerId \in PeerIds :
          IF roomId \notin DOMAIN rooms
          THEN UNCHANGED <<rooms, wsent>>
          ELSE /\ rooms' = RoomDelete(rooms, roomId, peerId)
               /\ wsent' = SafeSend(wsent, OtherSockets(rooms[roomId], peerId),
                                    "peer-left")
    /\ UNCHANGED <<wcur, wopen>>
    /\ UNCHANGED <<jobs, tracks, workerVars, uploadVars, partsVars, loopVars, wloc,
                   exportVars, ipc, segments, execVars, srcVars, xidem, planVars,
                   poolVars, hookVars>>

\* a payload that is not JSON, not a message, or of an unknown type
WsInvalid(s) ==
    /\ wopen[s] = "open"
    /\ wsent' = SafeSend(wsent, {s}, "error")
    /\ UNCHANGED <<rooms, wcur, wopen>>
    /\ UNCHANGED <<jobs, tracks, workerVars, uploadVars, partsVars, loopVars, wloc,
                   exportVars, ipc, segments, execVars, srcVars, xidem, planVars,
                   poolVars, hookVars>>

\* ws.on('close')
WsClose(s) ==
    /\ wopen[s] = "open"
    /\ wopen' = [wopen EXCEPT ![s] = "closed"]
    /\ IF \/ wcur[s].roomId = 0
          \/ wcur[s].peerId = 0
          \/ wcur[s].roomId \notin DOMAIN rooms
       THEN UNCHANGED <<rooms, wsent>>
       ELSE /\ rooms' = RoomDelete(rooms, wcur[s].roomId, wcur[s].peerId)
            /\ wsent' = [t \in Sockets |->
                            IF /\ t \in OtherSockets(rooms[wcur[s].roomId],
                                                     wcur[s].peerId)
                               /\ wopen'[t] = "open"
                            THEN "peer-left" ELSE wsent[t]]
    /\ UNCHANGED wcur
    /\ UNCHANGED <<jobs, tracks, workerVars, uploadVars, partsVars, loopVars, wloc,
                   exportVars, ipc, segments, execVars, srcVars, xidem, planVars,
                   poolVars, hookVars>>

InitSignal ==
    /\ rooms = << >>
    /\ wcur = [s \in Sockets |-> NoCurrent]
    /\ wopen = [s \in Sockets |-> "open"]
    /\ wsent = [s \in Sockets |-> ""]

InitClient ==
    /\ InitPlan
    /\ InitPool
    /\ InitHooks
    /\ InitSignal

InitOther ==
    /\ InitParts
    /\ InitExports
    /\ InitInitiated
    /\ InitSegments
    /\ InitExec
    /\ InitClient
    /\ InitKinds

Init ==
    /\ jobs = << >>
    /\ tracks = [t \in TrackIds |-> WorkerInitTrack(t)]
    /\ uploads = [u \in UploadIds |-> WorkerInitUpload(u)]
    /\ tusmap = [u \in UploadIds |-> IF ProtocolOf(u) = "tus" THEN TusIdOf(u) ELSE 0]
    /\ tusd = [u \in UploadIds |-> FALSE]
    /\ media = {RelKey(Recording, u, u) : u \in TusUploads}
    /\ r2 = [u \in UploadIds |-> IF ProtocolOf(u) = "tus" THEN "none" ELSE "open"]
    /\ creq = CHOOSE p \in Payloads : TRUE
    /\ InitWorkers
    /\ InitLoops("transcode", Workers)
    /\ InitCalls
    /\ InitOther

Next ==
    \/ EnqueueTranscode
    \/ \E w \in Workers :
          \/ ClaimFindFirst(w)
          \/ ClaimUpdate(w)
          \/ RunJobTranscode(w)
          \/ PersistFinal(w)
          \/ EnqueueAsr(w)
          \/ Succeed(w)
          \/ Fail(w)

Spec == Init /\ [][Next]_vars

\* The finalization specification starts with every upload initiated and its
\* bytes received: the tusd data file assembled, the multipart session open.
\* The post-create hook may or may not have recorded the tus id mapping.
InitUpload ==
    /\ jobs = << >>
    /\ tracks = [t \in TrackIds |-> InitiatedTrack(t)]
    /\ uploads = [u \in UploadIds |-> InitiatedUpload(u)]
    /\ tusmap \in [UploadIds -> {0} \cup UploadIds]
    /\ \A u \in UploadIds :
          tusmap[u] \in IF ProtocolOf(u) = "tus" THEN {0, TusIdOf(u)} ELSE {0}
    /\ tusd = [u \in UploadIds |-> ProtocolOf(u) = "tus"]
    /\ media = {}
    /\ r2 = [u \in UploadIds |-> IF ProtocolOf(u) = "tus" THEN "none" ELSE "open"]
    /\ creq \in Payloads
    /\ InitWorkers
    /\ InitLoops("off", {})
    /\ InitCalls
    /\ InitOther

NextUpload ==
    \E c \in Calls :
       \/ CompleteRequest(c)
       \/ TusLookup(c)
       \/ TusLocate(c)
       \/ TusStat(c)
       \/ TusRename(c)
       \/ TusCopy(c)
       \/ TusUnlink(c)
       \/ TusMark(c)
       \/ MarkUpdate(c)
       \/ TusEnqueue(c)
       \/ MpLookup(c)
       \/ MpComplete(c)
       \/ MpHead(c)
       \/ MpMark(c)
       \/ MpEnqueue(c)

SpecUpload == InitUpload /\ [][NextUpload]_vars

\* The foreign-file specification: the tusd directory holds, next to the file
\* of each resumable upload, the pending files of other uploads (every tus id
\* has a file), and the tusUrl of the completion request may end in any of
\* these ids: the route passes body.tusUrl on as it came.
AnyTusUrlPayloads(u) ==
    [upload : {u}, protocol : {"tus"}, bytes : {{}, {SizeOf(u)}},
     tusUrl : {0} \cup UploadIds, totalBytes : {{}}]

InitForeign ==
    /\ jobs = << >>
    /\ tracks = [t \in TrackIds |-> InitiatedTrack(t)]
    /\ uploads = [u \in UploadIds |-> InitiatedUpload(u)]
    /\ tusmap \in [UploadIds -> {0} \cup UploadIds]
    /\ \A u \in UploadIds :
          tusmap[u] \in IF ProtocolOf(u) = "tus" THEN {0, TusIdOf(u)} ELSE {0}
    /\ tusd = [f \in UploadIds |-> TRUE]
    /\ media = {}
    /\ r2 = [u \in UploadIds |-> IF ProtocolOf(u) = "tus" THEN "none" ELSE "open"]
    /\ creq \in UNION {AnyTusUrlPayloads(u) : u \in TusUploads}
    /\ InitWorkers
    /\ InitLoops("off", {})
    /\ InitCalls
    /\ InitOther

NextForeign ==
    \E c \in Calls :
       \/ CompleteRequest(c)
       \/ TusLookup(c)
       \/ TusLocate(c)
       \/ TusStat(c)
       \/ TusRename(c)
       \/ TusCopy(c)
       \/ TusUnlink(c)
       \/ TusMark(c)
       \/ MarkUpdate(c)
       \/ TusEnqueue(c)

SpecForeign == InitForeign /\ [][NextForeign]_vars

\* The retry specification: the client sends the resumable completion again
\* after the answer to the one before, and the store may fail in the middle of
\* a call.
CallsAtRest == \A d \in Calls : cpc[d] \in {"idle", "done"}

RetryRequest(c) == CallsAtRest /\ CompleteRequest(c)

InitRetry ==
    /\ InitUpload
    /\ creq.protocol = "tus"

NextRetry ==
    \E c \in Calls :
       \/ RetryRequest(c)
       \/ TusLookup(c)
       \/ TusLocate(c)
       \/ TusStat(c)
       \/ TusRename(c)
       \/ TusCopy(c)
       \/ TusUnlink(c)
       \/ TusMark(c)
       \/ MarkUpdate(c)
       \/ MarkThrows(c)
       \/ TusEnqueue(c)

SpecRetry == InitRetry /\ [][NextRetry]_vars

\* The parts specification: a multipart upload initiated and its parts put;
\* the client reports them in any order, and the completion service runs.
InitPartsSpec ==
    /\ jobs = << >>
    /\ tracks = [t \in TrackIds |-> InitiatedTrack(t)]
    /\ uploads = [u \in UploadIds |-> InitiatedUpload(u)]
    /\ tusmap = [u \in UploadIds |-> 0]
    /\ tusd = [u \in UploadIds |-> ProtocolOf(u) = "tus"]
    /\ media = {}
    /\ r2 = [u \in UploadIds |-> IF ProtocolOf(u) = "tus" THEN "none" ELSE "open"]
    /\ creq = CHOOSE p \in Payloads : p.protocol = "multipart"
    /\ InitWorkers
    /\ InitLoops("off", {})
    /\ InitCalls
    /\ InitExports
    /\ InitSegments
    /\ InitExec
    /\ InitClient
    /\ InitKinds
    /\ InitInitiated
    /\ parts \in PartsLists
    /\ r2parts = << >>
    /\ pres = "none"

NextParts ==
    \/ MpRejectParts
    \/ MpSendParts

SpecParts == InitPartsSpec /\ [][NextParts]_vars

\* The lifecycle specification: nothing initiated yet.  The client initiates
\* an upload, sends its bytes and completes it (with retries) while the
\* transcode worker (one process running runTranscodeWorker) serves the jobs.
TranscodeLoops == {1}

InitLifecycle ==
    /\ jobs = << >>
    /\ tracks = [t \in TrackIds |-> AbsentTrack(t)]
    /\ uploads = [u \in UploadIds |-> AbsentUpload(u)]
    /\ tusmap = [u \in UploadIds |-> 0]
    /\ tusd = [u \in UploadIds |-> FALSE]
    /\ media = {}
    /\ r2 = [u \in UploadIds |-> "none"]
    /\ creq \in Payloads
    /\ ipc = [u \in UploadIds |-> "idle"]
    /\ InitWorkers
    /\ InitLoops("transcode", TranscodeLoops)
    /\ InitCalls
    /\ InitParts
    /\ InitExports
    /\ InitSegments
    /\ InitExec
    /\ InitClient
    /\ InitKinds

NextLifecycle ==
    \/ \E u \in UploadIds :
          \/ InitiateCreate(u)
          \/ InitiateR2Create(u)
          \/ InitiateSavePlan(u)
          \/ TusdUpload(u)
    \/ NextUpload
    \/ \E w \in Workers :
          \/ ClaimFindFirst(w)
          \/ ClaimUpdate(w)
          \/ RunJobTranscode(w)
          \/ PersistFinal(w)
          \/ EnqueueAsr(w)
          \/ Succeed(w)
          \/ Fail(w)

SpecLifecycle == InitLifecycle /\ [][NextLifecycle]_vars

\* The export specification: export requests for the recording and the
\* export worker (one process running runExportWorker).  The recording's
\* first track has been transcoded (processed, final key set) or has not.
ExportLoops == {1}

ProcessedTrack(t) ==
    [WorkerInitTrack(t) EXCEPT !.state = "processed",
                               !.storage_key_final = FinalKey(Recording, t)]

InitExport ==
    /\ jobs = << >>
    /\ \/ tracks = [t \in TrackIds |-> WorkerInitTrack(t)]
       \/ tracks = [t \in TrackIds |->
                       IF t = 1 THEN ProcessedTrack(t) ELSE WorkerInitTrack(t)]
    /\ uploads = [u \in UploadIds |-> WorkerInitUpload(u)]
    /\ tusmap = [u \in UploadIds |-> IF ProtocolOf(u) = "tus" THEN TusIdOf(u) ELSE 0]
    /\ tusd = [u \in UploadIds |-> FALSE]
    /\ media = {RelKey(Recording, u, u) : u \in TusUploads}
    /\ r2 = [u \in UploadIds |-> IF ProtocolOf(u) = "tus" THEN "none" ELSE "open"]
    /\ creq = CHOOSE p \in Payloads : TRUE
    /\ InitWorkers
    /\ InitLoops("export", ExportLoops)
    /\ InitCalls
    /\ InitOther

NextExport ==
    \/ \E c \in ExportCalls :
          \/ ExportRequest(c)
          \/ ExportFind(c)
          \/ ExportCreate(c)
          \/ ExportEnqueue(c)
    \/ \E w \in Workers :
          \/ ClaimFindFirst(w)
          \/ ClaimUpdate(w)
          \/ RunJobExport(w)
          \/ ExportMarkRunning(w)
          \/ ExportPickSource(w)
          \/ ExportPersist(w)
          \/ Succeed(w)
          \/ FailExport(w)

SpecExport == InitExport /\ [][NextExport]_vars

\* The loop specification: one transcode worker process, jobs enqueued while
\* it runs, store calls that throw, and the stop signal.
InitLoop ==
    /\ jobs = << >>
    /\ tracks = [t \in TrackIds |-> WorkerInitTrack(t)]
    /\ uploads = [u \in UploadIds |-> WorkerInitUpload(u)]
    /\ tusmap = [u \in UploadIds |-> IF ProtocolOf(u) = "tus" THEN TusIdOf(u) ELSE 0]
    /\ tusd = [u \in UploadIds |-> FALSE]
    /\ media = {RelKey(Recording, u, u) : u \in TusUploads}
    /\ r2 = [u \in UploadIds |-> IF ProtocolOf(u) = "tus" THEN "none" ELSE "open"]
    /\ creq = CHOOSE p \in Payloads : TRUE
    /\ InitWorkers
    /\ InitLoops("transcode", TranscodeLoops)
    /\ InitCalls
    /\ InitOther

\* The upstream stage of the loop specification: createJob, for a few jobs.
EnqueueLoopJob ==
    /\ Cardinality({i \in JobIds : jobs[i].type = "transcode"}) < MaxLoopJobs
    /\ EnqueueTranscode

\* One step of the body of runTranscodeWorker.
LoopStep(w) ==
    \/ ClaimFindFirst(w)
    \/ ClaimUpdate(w)
    \/ ClaimThrows(w)
    \/ RunJobTranscode(w)
    \/ PersistFinal(w)
    \/ EnqueueAsr(w)
    \/ EnqueueAsrThrows(w)
    \/ Succeed(w)
    \/ SucceedThrows(w)
    \/ Fail(w)
    \/ FailThrows(w)
    \/ LoopSleep(w)
    \/ LoopExit(w)

NextLoop ==
    \/ EnqueueLoopJob
    \/ \E w \in Workers :
          \/ Signal(w)
          \/ LoopStep(w)

SpecLoop == InitLoop /\ [][NextLoop]_vars

\* The event loop resumes an async function whose awaited call has returned
\* or thrown, and every awaited call of the loop returns or throws.
LoopFairness == \A w \in TranscodeLoops : WF_vars(LoopStep(w))

SpecLoopFair == InitLoop /\ [][NextLoop]_vars /\ LoopFairness

\* The transcript specification: the asr worker processes, with the first
\* track transcoded (processed, final key set) and asr jobs enqueued while
\* the loops run.
InitAsr ==
    /\ jobs = << >>
    /\ tracks = [t \in TrackIds |->
                    IF t = 1 THEN ProcessedTrack(t) ELSE WorkerInitTrack(t)]
    /\ uploads = [u \in UploadIds |-> WorkerInitUpload(u)]
    /\ tusmap = [u \in UploadIds |-> IF ProtocolOf(u) = "tus" THEN TusIdOf(u) ELSE 0]
    /\ tusd = [u \in UploadIds |-> FALSE]
    /\ media = {RelKey(Recording, u, u) : u \in TusUploads}
    /\ r2 = [u \in UploadIds |-> IF ProtocolOf(u) = "tus" THEN "none" ELSE "open"]
    /\ creq = CHOOSE p \in Payloads : TRUE
    /\ InitWorkers
    /\ InitLoops("asr", Workers)
    /\ InitCalls
    /\ InitOther

NextAsr ==
    \/ EnqueueAsrJob
    \/ \E w \in Workers :
          \/ ClaimFindFirst(w)
          \/ ClaimUpdate(w)
          \/ RunJobAsr(w)
          \/ AsrDeleteSegments(w)
          \/ AsrInsertSegments(w)
          \/ Succeed(w)
          \/ SucceedThrows(w)
          \/ Fail(w)

SpecAsr == InitAsr /\ [][NextAsr]_vars

\* The executor specification: runTranscodeForTrack called by the transcode
\* worker processes for the tracks of the recording.  The resumable upload is
\* finalized (raw file in MEDIA_ROOT); the multipart upload is completed (its
\* object in the bucket, the object key as the track's raw key) or not yet.
CompletedMultipartTrack(t) ==
    [InitiatedTrack(t) EXCEPT !.state = "uploaded",
                              !.storage_key_raw = ObjectKey(Recording, t)]

InitTranscode ==
    /\ jobs = << >>
    /\ \E done \in BOOLEAN :
          /\ tracks = [t \in TrackIds |->
                          IF ProtocolOf(t) = "multipart" /\ done
                          THEN CompletedMultipartTrack(t) ELSE WorkerInitTrack(t)]
          /\ uploads = [u \in UploadIds |->
                          IF ProtocolOf(u) = "multipart" /\ ~done
                          THEN InitiatedUpload(u)
                          ELSE [InitiatedUpload(u) EXCEPT !.state = "completed"]]
          /\ r2 = [u \in UploadIds |->
                      IF ProtocolOf(u) = "tus" THEN "none"
                      ELSE IF done THEN "completed" ELSE "open"]
    /\ tusmap = [u \in UploadIds |-> IF ProtocolOf(u) = "tus" THEN TusIdOf(u) ELSE 0]
    /\ tusd = [u \in UploadIds |-> FALSE]
    /\ media = {RelKey(Recording, u, u) : u \in TusUploads}
    /\ creq = CHOOSE p \in Payloads : TRUE
    /\ InitWorkers
    /\ InitLoops("transcode", Workers)
    /\ InitCalls
    /\ InitOther

NextTranscode ==
    \E w \in Workers :
        \/ TranscodeCall(w)
        \/ resolveRawToLocal(w)
        \/ ffprobeJson(w)
        \/ TranscodeToTmp(w)
        \/ uploadFinalToR2(w)
        \/ TranscodeFinally(w)
        \/ TranscodeOver(w)

SpecTranscode == InitTranscode /\ [][NextTranscode]_vars

\* The source specification: the recording's tracks, created as audio or
\* video tracks and uploaded, are processed in any order while exports are
\* requested and the export worker runs them.
Kinds == {"audio", "video"}

InitSource ==
    /\ jobs = << >>
    /\ tracks = [t \in TrackIds |->
                    IF ProtocolOf(t) = "multipart"
                    THEN CompletedMultipartTrack(t) ELSE WorkerInitTrack(t)]
    /\ uploads = [u \in UploadIds |-> [InitiatedUpload(u) EXCEPT !.state = "completed"]]
    /\ tusmap = [u \in UploadIds |-> IF ProtocolOf(u) = "tus" THEN TusIdOf(u) ELSE 0]
    /\ tusd = [u \in UploadIds |-> FALSE]
    /\ media = {RelKey(Recording, u, u) : u \in TusUploads}
    /\ r2 = [u \in UploadIds |-> IF ProtocolOf(u) = "tus" THEN "none" ELSE "completed"]
    /\ creq = CHOOSE p \in Payloads : TRUE
    /\ InitWorkers
    /\ InitLoops("export", ExportLoops)
    /\ InitCalls
    /\ InitParts
    /\ InitExports
    /\ InitInitiated
    /\ InitSegments
    /\ InitExec
    /\ InitClient
    /\ tkind \in [TrackIds -> Kinds]
    /\ porder = << >>
    /\ xidem = {}

NextSource ==
    \/ \E t \in TrackIds : TrackProcessed(t)
    \/ NextExport

SpecSource == InitSource /\ [][NextSource]_vars

\* The export rerun specification: one export has been requested (its
\* artifact and its job are queued, the first track is processed) and the
\* export worker processes run; loops whose claims overlap run the job more
\* than once.
InitRerun ==
    /\ jobs = <<NewJob(Recording, "export", 1)>>
    /\ exports = <<NewExport(Recording, "wav")>>
    /\ tracks = [t \in TrackIds |->
                    IF t = 1 THEN ProcessedTrack(t) ELSE WorkerInitTrack(t)]
    /\ uploads = [u \in UploadIds |-> WorkerInitUpload(u)]
    /\ tusmap = [u \in UploadIds |-> IF ProtocolOf(u) = "tus" THEN TusIdOf(u) ELSE 0]
    /\ tusd = [u \in UploadIds |-> FALSE]
    /\ media = {RelKey(Recording, u, u) : u \in TusUploads}
    /\ r2 = [u \in UploadIds |-> IF ProtocolOf(u) = "tus" THEN "none" ELSE "open"]
    /\ creq = CHOOSE p \in Payloads : TRUE
    /\ InitWorkers
    /\ InitLoops("export", Workers)
    /\ InitCalls
    /\ InitParts
    /\ xpc = [c \in ExportCalls |-> IF c = 1 THEN "done" ELSE "idle"]
    /\ xreq = [c \in ExportCalls |-> IF c = 1 THEN "wav" ELSE "none"]
    /\ xres = [c \in ExportCalls |->
                  IF c = 1 THEN [code |-> "ok", id |-> 1] ELSE NoExportRes]
    /\ xlog = [c \in ExportCalls |->
                  IF c = 1 THEN [seen |-> {}, created |-> 1, enqueued |-> 1]
                  ELSE NoExportLog]
    /\ InitInitiated
    /\ InitSegments
    /\ InitExec
    /\ InitClient
    /\ InitKinds

NextRerun ==
    \E w \in Workers :
        \/ ClaimFindFirst(w)
        \/ ClaimUpdate(w)
        \/ RunJobExport(w)
        \/ ExportMarkRunning(w)
        \/ ExportPickSource(w)
        \/ ExportPersist(w)
        \/ Succeed(w)
        \/ FailExport(w)

SpecRerun == InitRerun /\ [][NextRerun]_vars

\* The plan specification: one multipart initiate request, of any stated
\* size and part size; no server process runs.
InitClientSpec ==
    /\ jobs = << >>
    /\ tracks = [t \in TrackIds |-> InitiatedTrack(t)]
    /\ uploads = [u \in UploadIds |-> InitiatedUpload(u)]
    /\ tusmap = [u \in UploadIds |-> 0]
    /\ tusd = [u \in UploadIds |-> FALSE]
    /\ media = {}
    /\ r2 = [u \in UploadIds |-> IF ProtocolOf(u) = "tus" THEN "none" ELSE "open"]
    /\ creq = CHOOSE p \in Payloads : TRUE
    /\ InitWorkers
    /\ InitLoops("off", {})
    /\ InitCalls
    /\ InitOther

NextPlan == PlanMultipart

SpecPlan == InitClientSpec /\ [][NextPlan]_vars

\* The uploader specification: one call of uploadMultipartFile in the browser.
NextPool ==
    \/ UploadStart
    \/ PoolResolve
    \/ \E k \in PoolWorkers :
          \/ PutOk(k)
          \/ PutFail(k)
          \/ BackoffOver(k)

SpecPool == InitClientSpec /\ [][NextPool]_vars

\* The hook specification: tusd posts hooks of any name and body.
NextHooks == TusdHook

SpecHooks == InitClientSpec /\ [][NextHooks]_vars

\* the studio websocket connections alone
NextSignal ==
    \E s \in Sockets :
        \/ WsJoin(s)
        \/ WsSignal(s)
        \/ WsLeave(s)
        \/ WsInvalid(s)
        \/ WsClose(s)

SpecSignal == InitClientSpec /\ [][NextSignal]_vars

\* ==================================================================== claims
TranscodeJobsOf(t) ==
    {i \in JobIds : jobs[i].type = "transcode" /\ jobs[i].payload = t}

HoldersOf(j) == {w \in Workers : Holding(w) /\ wjob[w].id = j}

\* C1 (exclusive claim): a job is returned to one claim call at a time, so at
\* no time do two worker loops hold (execute) the same job.
C1_ExclusiveClaim ==
    \A j \in JobIds : Cardinality(HoldersOf(j)) <= 1

\* C2 (retry bound): a job whose executor throws on every run (its payload has
\* no trackId, so runJob throws bad_payload each time) is claimed at most
\* MAX_ATTEMPTS times, is back in queued only after fewer than MAX_ATTEMPTS
\* claims, never succeeds, and once failed has attempts = MAX_ATTEMPTS and
\* was claimed exactly MAX_ATTEMPTS times.
C2_RetryBound ==
    \A j \in JobIds :
        jobs[j].payload = 0 =>
            /\ claims[j] <= MAX_ATTEMPTS
            /\ jobs[j].state # "succeeded"
            /\ jobs[j].state = "queued" => claims[j] < MAX_ATTEMPTS
            /\ jobs[j].state = "failed" =>
                  jobs[j].attempts = MAX_ATTEMPTS /\ claims[j] = MAX_ATTEMPTS

\* C3 (job state machine): in every step a job's state is unchanged or moves
\* queued->running, running->succeeded, running->queued with attempts < 3, or
\* running->failed with attempts >= 3; so nothing leaves succeeded/failed/dead.
AllowedTransition(old, new) ==
    \/ new.state = old.state
    \/ old.state = "queued" /\ new.state = "running"
    \/ old.state = "running" /\ new.state = "succeeded"
    \/ old.state = "running" /\ new.state = "queued" /\ old.attempts < MAX_ATTEMPTS
    \/ old.state = "running" /\ new.state = "failed" /\ old.attempts >= MAX_ATTEMPTS

C3_JobStateMachine ==
    [][\A j \in JobIds : AllowedTransition(jobs[j], jobs'[j])]_vars

\* C4 (terminal immutability): a claim call that starts once a job has been
\* succeeded, failed or dead never selects (and so never returns) that job.
C4_TerminalImmutability ==
    [][\A w \in Workers :
          (wpc[w] = "loop" /\ wpc'[w] = "update") => wfound'[w] \notin terminated]_vars

\* C5 (upload idempotency, sequential): a completion request that arrives after
\* a request for the same upload has returned success returns already = true
\* with the raw key the earlier success returned, and none of its steps moves
\* a file, completes a multipart session, creates a job or writes Upload/Track.
C5_UploadIdempotency ==
    /\ [](\A c \in Calls :
            (clog[c].afterSuccess /\ Returned(c)) =>
               /\ ReturnedOk(c)
               /\ cres[c].already
               /\ cres[c].key = TargetTrack.storage_key_raw
               /\ \A d \in Calls : ReturnedOk(d) => cres[d].key = cres[c].key)
    /\ [][\A c \in Calls :
            (clog'[c].afterSuccess /\ cpc'[c] # cpc[c]) =>
               UNCHANGED <<uploads, tracks, jobs, tusd, media, r2>>]_vars

C5_Witness ==
    \E c \in Calls : clog[c].afterSuccess /\ ReturnedOk(c) /\ cres[c].already

\* C6 (exactly-once completion under concurrent retries): at most one
\* transcode job references a track, whatever the interleaving of the
\* completion requests for its upload.
C6_AtMostOneTranscodeJob ==
    \A t \in TrackIds : Cardinality(TranscodeJobsOf(t)) <= 1

\* C7 (size mismatch): when the resumable completion is sent with an
\* expectedBytes that differs from the size of the upload's data file, every
\* request that located the file fails with size_mismatch, no request
\* succeeds, and nothing changes: Upload in_progress, Track recording without
\* raw key, data file still in the tusd directory, no file moved, no job.
MismatchingPayload ==
    /\ creq.protocol = "tus"
    /\ SizeOf(TusIdOf(creq.upload)) \notin creq.bytes
    /\ creq.bytes # {}

C7_SizeMismatch ==
    MismatchingPayload =>
        /\ TargetUpload.state = "in_progress"
        /\ TargetTrack.state = "recording"
        /\ TargetTrack.storage_key_raw = NoKey
        /\ tusd[creq.upload] = (ProtocolOf(creq.upload) = "tus")
        /\ media = {}
        /\ jobs = << >>
        /\ \A c \in Calls :
              Returned(c) =>
                 /\ cres[c].status = "error"
                 /\ cloc[c].src # 0 => cres[c].code = "size_mismatch"

C7_Witness ==
    \E c \in Calls : MismatchingPayload /\ cres[c].code = "size_mismatch"

\* C8 (no lost trigger): when a completion request has returned success (with
\* or without already = true) a transcode job for the upload's track exists;
\* looked at in the states where no request is in flight.
NoCallInFlight == \A d \in Calls : cpc[d] \in {"idle", "done"}

C8_NoLostTrigger ==
    \A c \in Calls :
        (ReturnedOk(c) /\ NoCallInFlight) =>
            TranscodeJobsOf(TargetUpload.track_id) # {}

\* C9 as stated (enqueue failure after commit): a request in which createJob
\* threw after markUploadCompletedAndSetRawKey committed returns an error, and
\* Upload stays completed and Track uploaded with its raw key.
CommittedStateKept ==
    /\ TargetUpload.state = "completed"
    /\ TargetTrack.state = "uploaded"
    /\ TargetTrack.storage_key_raw =
          IF creq.protocol = "tus" THEN TargetRelKey ELSE TargetUpload.object_key

C10_BytesPersisted ==
    \A c \in Calls :
        (ReturnedOk(c) /\ ~cres[c].already) =>
            /\ TargetUpload.state = "completed"
            /\ TargetUpload.bytes_received = cres[c].bytes

\* C11 (multipart ordering): whatever the order in which the client reports
\* its parts, the Parts handed to CompleteMultipartUpload are strictly ascending
\* by part number, each etag is kept with its part number, and the parts are
\* the same multiset as the reported ones.
C11_PartsSortedAscending ==
    pres = "sent" =>
        /\ Len(r2parts) = Len(parts)
        /\ \A i \in 1 .. Len(r2parts) - 1 :
              r2parts[i].PartNumber < r2parts[i + 1].PartNumber
        /\ \A n \in 1 .. MaxParts, e \in ETags :
              Cardinality({i \in 1 .. Len(parts) :
                              parts[i] = [partNumber |-> n, etag |-> e]})
              = Cardinality({i \in 1 .. Len(r2parts) :
                              r2parts[i] = [PartNumber |-> n, ETag |-> e]})

C11_Witness ==
    /\ pres = "sent"
    /\ Len(parts) = MaxParts
    /\ parts[1].partNumber > parts[2].partNumber
    /\ parts[1].etag # parts[2].etag

\* C12 (export dedup, sequential requests): a request that finds an artifact of
\* its (recording, type) queued, running or succeeded returns the id of such an
\* artifact, creates no artifact and enqueues no export job.
C12_ExportDedup ==
    \A c \in ExportCalls :
        (xlog[c].seen # {} /\ xpc[c] = "done") =>
            /\ xres[c].code = "ok"
            /\ xres[c].id \in xlog[c].seen
            /\ xlog[c].created = 0
            /\ xlog[c].enqueued = 0

C12_Witness ==
    \E c \in ExportCalls :
        /\ xlog[c].seen # {}
        /\ xpc[c] = "done"
        /\ exports[xres[c].id].state = "succeeded"

\* C13 (single active export): at most one artifact of a (recording, type)
\* pair is queued, running or succeeded.
C13_SingleActiveExport ==
    \A type \in ExportTypes : Cardinality(ActiveNow(Recording, type)) <= 1

\* C14 (track invariants): a Track's state only moves recording -> uploaded ->
\* processed, never backwards; a Track that is uploaded or processed has a raw
\* storage key; a Track that is processed has a final storage key.
TrackRank(state) ==
    CASE state = "none" -> 0
      [] state = "recording" -> 1
      [] state = "uploaded" -> 2
      [] state = "processed" -> 3

C14_TrackInvariants ==
    /\ [](\A t \in TrackIds :
            /\ tracks[t].state \in {"uploaded", "processed"} =>
                  tracks[t].storage_key_raw # NoKey
            /\ tracks[t].state = "processed" => tracks[t].storage_key_final # NoKey)
    /\ [][\A t \in TrackIds :
            TrackRank(tracks[t].state) <= TrackRank(tracks'[t].state)]_vars

\* C15 (upload invariants): a completed Upload's Track has the raw key its
\* completion wrote; Upload.state and the Track's state and raw key change in
\* the same step; a completed Upload never returns to in_progress.
CompletionKeys(u) == {RelKey(Recording, uploads[u].track_id, u), ObjectKey(Recording, u)}

C15_UploadInvariants ==
    /\ [](\A u \in UploadIds :
            uploads[u].state = "completed" =>
               /\ tracks[uploads[u].track_id].storage_key_raw # NoKey
               /\ tracks[uploads[u].track_id].storage_key_raw \in CompletionKeys(u)
               /\ \A c \in Calls :
                     (creq.upload = u /\ ReturnedOk(c)) =>
                        cres[c].key = tracks[uploads[u].track_id].storage_key_raw)
    /\ [][\A u \in UploadIds :
            /\ (uploads[u].state # "completed" /\ uploads'[u].state = "completed") =>
                  /\ tracks'[uploads[u].track_id].state = "uploaded"
                  /\ tracks'[uploads[u].track_id].storage_key_raw # NoKey
            /\ tracks'[uploads[u].track_id].storage_key_raw
                   # tracks[uploads[u].track_id].storage_key_raw =>
                  uploads'[u].state = "completed"
            /\ uploads[u].state = "completed" => uploads'[u].state = "completed"]_vars

C15_Witness ==
    \E u \in UploadIds :
        /\ uploads[u].state = "completed"
        /\ ProtocolOf(u) = "multipart"
        /\ tracks[uploads[u].track_id].state = "processed"
        /\ \E c \in Calls : ReturnedOk(c) /\ cres[c].already

\* C16 (malformed payloads are not retried): a job whose payload lacks the
\* required field is failed (or dead) once its first attempt is over; it is
\* never put back in queued.
C16_MalformedNotRetried ==
    \A j \in JobIds :
        (jobs[j].payload = 0 /\ jobs[j].attempts >= 1) =>
            jobs[j].state \in {"running", "failed", "dead"}

\* C17: a worker loop survives store failures.  When the claim throws, the
\* job table is left as it was and the loop, having logged the error, sleeps
\* and is back at its condition (or ends, when the stop signal has come
\* meanwhile); and the loop ends only with the stopping flag set, whatever
\* claim, run, succeed or fail have thrown.
C17_LoopSurvivesStoreFailures ==
    /\ [](\A w \in Workers : wpc[w] = "exited" => stopping[w])
    /\ [][\A w \in Workers :
            /\ ClaimThrows(w) => (wpc'[w] = "caught" /\ jobs' = jobs)
            /\ (wpc[w] = "caught" /\ wpc'[w] # "caught") =>
                   wpc'[w] = IF stopping[w] THEN "exited" ELSE "loop"
            /\ (wpc[w] # "exited" /\ wpc'[w] = "exited") => stopping[w]]_vars

\* C17 witness: with a job waiting and none ever claimed, the claim has
\* thrown, and the loop, not stopping, is in its catch on the way to the sleep.
C17_Witness ==
    \E w \in Workers :
        /\ wpc[w] = "caught"
        /\ ~stopping[w]
        /\ jobs # << >>
        /\ \A j \in JobIds : claims[j] = 0

C19_FifoWithinType ==
    [][\A w \in Workers :
          /\ (wpc[w] = "loop" /\ wpc'[w] = "update") =>
                 /\ wfound'[w] \in QueuedOfType(WorkerType(w))
                 /\ \A k \in QueuedOfType(WorkerType(w)) : wfound'[w] <= k
          /\ (wpc[w] = "loop" /\ wpc'[w] = "update") => jobs' = jobs
          /\ (wpc[w] = "update" /\ wpc'[w] = "run") =>
                 /\ jobs[wjob'[w].id].type = WorkerType(w)
                 /\ jobs[wjob'[w].id].state = "queued"]_vars

\* C20: asr persistence never duplicates.  Looked at in the runs where every
\* job was returned by one claim only: whatever asr runs there have been for
\* a track, retried or concurrent, the transcript segments stored for the
\* track's (recording, track) pair are the segments of one single run.
C20_NoDuplicateSegments ==
    (\A j \in JobIds : claims[j] <= 1) =>
        \A t \in TrackIds :
            \/ SegmentsOf(Recording, t) = {}
            \/ \E r \in SegmentsOf(Recording, t) :
                  SegmentsOf(Recording, t) =
                      AsrRows(Recording, t, [id |-> r.run[1], attempts |-> r.run[2]])

\* C21: pipeline chaining order.  A transcode run writes the track's final key
\* and state processed in one update while its job is still running, then
\* creates one asr job for the track and its recording, and only a loop that
\* has done both marks the job succeeded; hence a succeeded transcode job has
\* a processed track with a final key and an asr job for that track.
AsrJobsOf(t) ==
    {k \in JobIds : jobs[k].type = "asr" /\ jobs[k].payload = t
                    /\ jobs[k].recording_id = tracks[t].recording_id}

C21_ChainingState ==
    \A j \in JobIds :
        (jobs[j].type = "transcode" /\ jobs[j].state = "succeeded") =>
            /\ jobs[j].payload # 0
            /\ tracks[jobs[j].payload].state = "processed"
            /\ tracks[jobs[j].payload].storage_key_final # NoKey
            /\ AsrJobsOf(jobs[j].payload) # {}

C21_PipelineChaining ==
    /\ []C21_ChainingState
    /\ [][\A w \in Workers : WorkerType(w) = "transcode" =>
            LET t == wjob[w].payload IN
            /\ (wpc[w] = "persist" /\ wpc'[w] # "persist") =>
                   /\ wpc'[w] = "enqueue"
                   /\ tracks'[t].state = "processed"
                   /\ tracks'[t].storage_key_final =
                          FinalKey(tracks[t].recording_id, t)
                   /\ jobs' = jobs
            /\ (wpc[w] = "enqueue" /\ wpc'[w] = "succeed") =>
                   /\ Len(jobs') = Len(jobs) + 1
                   /\ jobs'[Len(jobs')] =
                          NewJob(tracks[t].recording_id, "asr", t)
                   /\ jobs'[wjob[w].id].state # "succeeded"
            /\ (wpc[w] # "succeed" /\ wpc'[w] = "succeed") => wpc[w] = "enqueue"
            /\ (wjob[w].id # 0 /\ wjob'[w].id = wjob[w].id
                   /\ jobs[wjob[w].id].state # "succeeded"
                   /\ jobs'[wjob[w].id].state = "succeeded") =>
                   \E v \in Workers : wpc[v] = "succeed" /\ wjob[v].id = wjob[w].id]_vars

\* C22: raw resolution by residency.  A raw key written by the resumable
\* finalization, whose file is under MEDIA_ROOT, is resolved to that file
\* directly: no temp file is made and the cleanup removes nothing; a raw key
\* that is a multipart object key is resolved by a download to a temp file.
C22_RawResolutionByResidency ==
    [][\A w \in Workers :
          (tpc[w] = "resolve" /\ tpc'[w] # "resolve") =>
              LET key == tloc[w].key IN
              /\ (key.dir = "raw" /\ InMediaRoot(key)) =>
                     /\ tpc'[w] = "probe"
                     /\ tloc'[w].raw = "direct"
                     /\ tmpfiles' = tmpfiles
              /\ (key.dir = "tracks" /\ tpc'[w] = "probe") =>
                     /\ tloc'[w].raw = "tmp"
                     /\ RawTmp(w) \in tmpfiles']_vars

\* C23: temp cleanup on all exit paths.  When runTranscodeForTrack returns or
\* throws after it has downloaded the raw object to a temp file, whether the
\* probe, the conversion or the upload failed or all went well, that temp
\* file and the call's temp final file are gone.
C23_TempCleanup ==
    [][\A w \in Workers :
          (tpc[w] \notin {"returned", "threw"} /\ tpc'[w] \in {"returned", "threw"}
               /\ tloc[w].raw = "tmp") =>
              /\ RawTmp(w) \notin tmpfiles'
              /\ FinalTmp(tloc[w].track, tloc[w].ext) \notin tmpfiles']_vars

\* C24: export source selection.  The source the export executor picks is a
\* processed track with a final key; when the recording has a processed track
\* of the kind the export type wants (audio for wav, video otherwise), it is
\* the one of that kind that was processed last.
LastProcessed(kind) ==
    LET idx == {i \in 1 .. Len(porder) : tkind[porder[i]] = kind} IN
        IF idx = {} THEN 0
        ELSE porder[CHOOSE i \in idx : \A k \in idx : k <= i]

C24_ExportSourceSelection ==
    [][\A w \in Workers :
          (wpc[w] = "xsource" /\ wpc'[w] = "xpersist") =>
              LET wanted == WantedKind(exports[wjob[w].payload].type) IN
              /\ \E t \in TrackIds :
                    /\ tracks[t].state = "processed"
                    /\ tracks[t].storage_key_final # NoKey
                    /\ wloc'[w] = tracks[t].storage_key_final
              /\ LastProcessed(wanted) # 0 =>
                    wloc'[w] = tracks[LastProcessed(wanted)].storage_key_final]_vars

C26_ExportFailureBothRecords ==
    [][\A w \in Workers :
          LET id == wjob[w].id
              exportId == wjob[w].payload IN
          /\ (/\ wpc[w] = "fail" /\ wpc'[w] # "fail"
              /\ WorkerType(w) = "export"
              /\ werr[w].code \notin {"bad_payload", "not_found"}) =>
                 /\ jobs'[id].state \in {"queued", "failed"}
                 /\ jobs'[id].last_error = ErrorText(werr[w])
                 /\ exports'[exportId].state = "failed"
                 /\ exports'[exportId].last_error = jobs'[id].last_error
          /\ \A x \in ExportIds :
                (exports'[x].state = "failed" /\ exports'[x] # exports[x]) =>
                    \E v \in Workers :
                        /\ wpc[v] = "fail" /\ wpc'[v] # "fail"
                        /\ wjob[v].payload = x
                        /\ jobs'[wjob[v].id].state \in {"queued", "failed"}
                        /\ jobs'[wjob[v].id].last_error = exports'[x].last_error]_vars

\* C26 witness: an export run has failed on an error that is neither
\* bad_payload nor not_found: the artifact is failed and its job carries the
\* same error text.
C26_Witness ==
    \E j \in JobIds :
        /\ jobs[j].type = "export"
        /\ jobs[j].payload \in ExportIds
        /\ jobs[j].state \in {"queued", "failed"}
        /\ jobs[j].last_error # NULL
        /\ exports[jobs[j].payload].state = "failed"
        /\ exports[jobs[j].payload].last_error = jobs[j].last_error

\* C27: no job stuck in running.  A job in state running is held by a worker
\* loop that is executing or resolving it; and when a loop lets go of the job
\* it claimed, at the end of the iteration, the job is succeeded, failed or
\* queued, also when the succeed or the fail write has thrown.
C27_NoJobStuckRunning ==
    /\ [](\A j \in JobIds :
             jobs[j].state = "running" =>
                 \E w \in Workers : Holding(w) /\ wjob[w].id = j)
    /\ [][\A w \in Workers :
            (Holding(w) /\ ~Holding(w)') =>
                jobs'[wjob[w].id].state \in {"succeeded", "failed", "queued"}]_vars

\* C28 (resumable locate and not-found): the step of a completion call that
\* leaves the locate position takes the file with the tus id (the id of
\* tusUrl, else the stored mapping of the upload) when that file is in the
\* tusd directory, else the file whose .info metadata names the upload; when
\* neither is there the call ends with tusd_not_found and the step leaves
\* Upload, Track, the tusd directory, the media root and the job table as
\* they were; a call that ended so has written nothing.
TusFilePresent(f) == f # 0 /\ f \in DOMAIN tusd /\ tusd[f]

C28_LocateStep(c) ==
    LET u == creq.upload
        tusId == IF creq.tusUrl # 0 THEN creq.tusUrl ELSE tusmap[u]
        named == {f \in DOMAIN tusd : tusd[f] /\ f = TusIdOf(u)} IN
    IF TusFilePresent(tusId)
    THEN cpc'[c] = "stat" /\ cloc'[c].src = tusId
    ELSE IF named # {}
    THEN cpc'[c] = "stat" /\ cloc'[c].src \in named
    ELSE /\ cpc'[c] = "done"
         /\ cres'[c] = AppError("tusd_not_found")
         /\ UNCHANGED <<uploads, tracks, tusd, media, jobs, tusmap, r2>>

C28_LocateAndNotFound ==
    [][\A c \in Calls :
          /\ (cpc[c] = "locate" /\ cpc'[c] # "locate") => C28_LocateStep(c)
          /\ cres'[c].code = "tusd_not_found" =>
                /\ clog'[c] = NoLog
                /\ cloc'[c].src = 0]_vars

C28_Witness ==
    \E c \in Calls :
        /\ cres[c].code = "tusd_not_found"
        /\ \E d \in Calls : d # c /\ cloc[d].src # 0 /\ tusmap[creq.upload] = 0
                                  /\ creq.tusUrl = 0

\* C29 (multipart plan arithmetic): for a total size above 0 and any
\* requested part size, the plan's partSize is the larger of the requested
\* size (8 MiB when none is given) and 5 MiB; the number of presigned URLs is
\* the total divided by partSize, rounded up; the part numbers are 1..count
\* in order; every part but the last has size partSize, the last has a size
\* in 1..partSize, and the sizes sum to the total.
RECURSIVE SumSizes(_)
SumSizes(meta) ==
    IF meta = << >> THEN 0 ELSE Head(meta).size + SumSizes(Tail(meta))

C29_PlanOf(total, requested, plan) ==
    LET wanted == IF requested # 0 THEN requested ELSE 8 * MiB
        count == Len(plan.presignedUrls)
        meta == plan.presignMeta IN
    /\ plan.status = "ok"
    /\ plan.partSize >= wanted /\ plan.partSize >= 5 * MiB
    /\ plan.partSize \in {wanted, 5 * MiB}
    /\ count * plan.partSize >= total
    /\ (count - 1) * plan.partSize < total
    /\ Len(meta) = count
    /\ \A n \in 1 .. count :
          /\ plan.presignedUrls[n] = n
          /\ meta[n].partNumber = n
          /\ n < count => meta[n].size = plan.partSize
          /\ n = count => meta[n].size \in 1 .. plan.partSize
    /\ SumSizes(meta) = total

C29_MultipartPlanArithmetic ==
    (mplan.status # "none" /\ mreq.size > 0) =>
        C29_PlanOf(mreq.size, mreq.partSize, mplan)

C29_Witness ==
    /\ mplan.status = "ok"
    /\ Len(mplan.presignMeta) >= 2
    /\ mplan.presignMeta[Len(mplan.presignMeta)].size < mplan.partSize
    /\ mreq.partSize > 5 * MiB

\* C30 (client multipart uploader, parts exactly once): the pool has
\* min(concurrency, number of parts) workers; no part is PUT by two workers;
\* at most concurrency PUTs are in flight; and when the call resolves every
\* part was PUT by exactly one worker and the result holds the part numbers
\* 1..n once each in ascending order, whatever the order of the pushes.
C30_InFlight == {k \in PoolWorkers : upc[k] = "put"}

C30_PartsExactlyOnce ==
    ustatus # "idle" =>
        /\ Cardinality({k \in PoolWorkers : upc[k] # "off"}) =
              (IF ureq.concurrency <= ureq.urls THEN ureq.concurrency ELSE ureq.urls)
        /\ \A n \in PartNumbers : Cardinality(utakers[n]) <= 1
        /\ Cardinality(C30_InFlight) <= ureq.concurrency
        /\ ustatus = "resolved" =>
              /\ \A n \in 1 .. ureq.urls : Cardinality(utakers[n]) = 1
              /\ Len(ureturn) = ureq.urls
              /\ \A n \in 1 .. ureq.urls : ureturn[n].partNumber = n

C30_Witness ==
    /\ ustatus = "resolved"
    /\ ureq.concurrency >= 2
    /\ \E a, b \in 1 .. Len(uresults) :
          a < b /\ uresults[a].partNumber > uresults[b].partNumber

\* C31 (client multipart uploader, bounded retries): no part is fetched more
\* than maxRetries + 1 times; a worker gives up on a part only after that
\* many fetches of it, and then the call is rejected for good; a resolved
\* call has a result for every part and no worker that gave up.
C31_Failed == {k \in PoolWorkers : upc[k] = "thrown"}

C31_BoundedRetriesState ==
    /\ \A n \in PartNumbers : uputs[n] <= ureq.maxRetries + 1
    /\ \A k \in C31_Failed :
          /\ uputs[upart[k]] = ureq.maxRetries + 1
          /\ ustatus = "rejected"
    /\ ustatus = "resolved" =>
          /\ C31_Failed = {}
          /\ {ureturn[a].partNumber : a \in 1 .. Len(ureturn)} = 1 .. ureq.urls

C31_BoundedRetries ==
    /\ []C31_BoundedRetriesState
    /\ [][ustatus = "rejected" => ustatus' = "rejected"]_vars

C31_Witness ==
    /\ ustatus = "rejected"
    /\ ureq.maxRetries >= 1
    /\ \E k \in PoolWorkers : upc[k] = "thrown" /\ upart[k] >= 2
    /\ \E k \in PoolWorkers : upc[k] = "done"

\* C32 (resolution bookkeeping): a succeeded job has last_error null; and the
\* step that ends a fail call leaves in the job's last_error the text of the
\* error, its code and ": " in front when it has a code, cut to at most 8000
\* characters, whether the job goes back to queued or to failed.
C32_TextOf(err) ==
    IF err.code = "" THEN err.message ELSE err.code \o ": " \o err.message

C32_FailStep(w) ==
    LET row == jobs'[wjob[w].id]
        text == C32_TextOf(werr[w]) IN
    /\ row.state \in {"queued", "failed"}
    /\ Len(row.last_error) <= 8000
    /\ Len(text) <= 8000 => row.last_error = text
    /\ Len(text) > 8000 =>
          /\ Len(row.last_error) = 8000
          /\ row.last_error \o SubSeq(text, 8001, Len(text)) = text

C32_ResolutionBookkeeping ==
    /\ [](\A j \in JobIds : jobs[j].state = "succeeded" => jobs[j].last_error = NULL)
    /\ [][\A w \in Workers :
             (wpc[w] = "fail" /\ wpc'[w] = "loop") => C32_FailStep(w)]_vars

C32_Witness ==
    \E j \in JobIds :
        /\ jobs[j].state = "failed"
        /\ jobs[j].last_error # NULL /\ Len(jobs[j].last_error) = 8000

\* C33 (the tusd hook never blocks the transport): every hook is answered
\* with status 200 and Action continue, whatever its name and body, also when
\* the mapping write throws or an id is missing; and when a post-create hook
\* with both ids has its write accepted, the row of that upload id holds the
\* tus id of the hook and the rows of the other uploads are as before.
C33_HookStep ==
    LET name == IF hreq'.header # "" THEN hreq'.header ELSE hreq'.type
        both == name = "post-create" /\ hreq'.tusId # 0 /\ hreq'.uploadId # 0 IN
    /\ hres' = [status |-> 200, Action |-> "continue"]
    /\ hlog' = "saved" =>
          /\ both
          /\ tusmap'[hreq'.uploadId] = hreq'.tusId
    /\ hlog' = "failed" => both
    /\ hlog' # "saved" => tusmap' = tusmap
    /\ \A u \in UploadIds : u # hreq'.uploadId => tusmap'[u] = tusmap[u]

C33_HookNeverBlocks ==
    [][C33_HookStep]_<<hreq, hres, hlog, tusmap>>

C33_Witness ==
    /\ hres = [status |-> 200, Action |-> "continue"]
    /\ hreq.header = "" /\ hreq.type = "post-create"
    /\ hreq.uploadId \in UploadIds
    /\ tusmap[hreq.uploadId] = hreq.tusId /\ hreq.tusId = 2
    /\ hlog = "saved"

\* C34 (attempts accounting): in every state, whatever the number of worker
\* loops, each job has 0 <= attempts <= MAX_ATTEMPTS, its attempts equal the
\* number of times a claim returned it, and a failed job has attempts =
\* MAX_ATTEMPTS.
C34_AttemptsAccounting ==
    \A j \in JobIds :
        /\ jobs[j].attempts >= 0
        /\ jobs[j].attempts <= MAX_ATTEMPTS
        /\ jobs[j].attempts = claims[j]
        /\ jobs[j].state = "failed" => jobs[j].attempts = MAX_ATTEMPTS

\* C35 (completion consumes only the upload's own bytes): whatever tusUrl the
\* request carries, the source file a resumable completion of upload U takes
\* is a file of U (the file its recorded tus id names, or the file whose
\* metadata upload-id is U), and no step of the call removes from the tusd
\* directory the pending file of another upload.
C35_BelongsTo(f, u) == f = tusmap[u] \/ f = TusIdOf(u)

C35_OwnBytesOnly ==
    /\ [](\A c \in Calls :
             cloc[c].src # 0 => C35_BelongsTo(cloc[c].src, creq.upload))
    /\ [][\A f \in DOMAIN tusd :
             (tusd[f] /\ ~tusd'[f]) => C35_BelongsTo(f, creq.upload)]_vars

\* C36 (completion is retryable after a partial failure): when a resumable
\* completion call failed with the source file moved and the Upload/Track
\* update not committed (db_update_failed), a later call for the same upload
\* with a fitting payload, that meets no store failure of its own, returns
\* success, and then Upload is completed, Track is uploaded and there is one
\* transcode job.
C36_PartialFailure(d) ==
    /\ cres[d].code = "db_update_failed"
    /\ clog[d].storageOps > 0
    /\ ~clog[d].committed

C36_RetryAfterPartialFailure ==
    \A d \in Calls, c \in Calls :
        (/\ d < c
         /\ C36_PartialFailure(d)
         /\ Returned(c)
         /\ creq.bytes \subseteq {SizeOf(creq.upload)}
         /\ cres[c].code \notin {"db_update_failed", "job_enqueue_failed"})
        => /\ ReturnedOk(c)
           /\ TargetUpload.state = "completed"
           /\ TargetTrack.state = "uploaded"
           /\ Cardinality({j \in JobIds : jobs[j].type = "transcode"}) = 1

\* C37 (at most one asr job per transcode job): over the life of a transcode
\* job, also when succeed() threw after the executor finished and the job
\* was requeued and run again, no more asr jobs exist for a track than
\* transcode jobs were enqueued for it.
C37_TranscodeJobsOf(t) ==
    {j \in JobIds : jobs[j].type = "transcode" /\ jobs[j].payload = t}

C37_OneAsrPerTranscode ==
    \A t \in TrackIds :
        Cardinality({j \in JobIds : jobs[j].type = "asr" /\ jobs[j].payload = t})
            <= Cardinality(C37_TranscodeJobsOf(t))

\* C38 (export job and artifact agree on success): whenever an export job is
\* succeeded, the artifact its payload names is succeeded and has a storage
\* key; and no artifact is succeeded without a storage key.
C38_JobAndArtifactAgree ==
    /\ \A j \in JobIds :
          (jobs[j].type = "export" /\ jobs[j].state = "succeeded") =>
              /\ jobs[j].payload \in DOMAIN exports
              /\ exports[jobs[j].payload].state = "succeeded"
              /\ exports[jobs[j].payload].storage_key # NoKey
    /\ \A x \in DOMAIN exports :
          exports[x].state = "succeeded" => exports[x].storage_key # NoKey

\* C39 (a failed initiation or a failed storage completion leaves no partial
\* state): after a rejected initiate call (multipart without size, or the
\* create-multipart call of the storage throwing) the upload has no Track and
\* no Upload row; and the step by which a multipart completion fails, because
\* the Upload row has no plan or because CompleteMultipartUpload throws,
\* leaves the Upload, Track and job tables as they were.
C39_RejectedInitiate ==
    \A u \in UploadIds :
        ipc[u] = "failed" => uploads[u].state = "none" /\ tracks[u].state = "none"

C39_FailedCompletion ==
    \A c \in Calls :
        (/\ creq.protocol = "multipart"
         /\ cres[c].status = "none"
         /\ cres'[c].code \in {"invalid_state", "unexpected"})
        => UNCHANGED <<uploads, tracks, jobs>>

C39_NoPartialState ==
    /\ []C39_RejectedInitiate
    /\ [][C39_FailedCompletion]_vars

\* C40 (signaling registry cleanup): after a websocket has closed, no peer
\* entry of any room refers to that socket, also when the socket sent several
\* join messages naming different rooms or peers; and the registry never
\* keeps a room with zero peers.
C40_EntriesOf(s) ==
    {<<r, p>> \in RoomIds \X PeerIds :
        r \in DOMAIN rooms /\ p \in DOMAIN rooms[r] /\ rooms[r][p].socket = s}

C40_NoEmptyRoom ==
    \A r \in DOMAIN rooms : DOMAIN rooms[r] # {}

C40_RegistryCleanup ==
    /\ \A s \in Sockets : wopen[s] = "closed" => C40_EntriesOf(s) = {}
    /\ C40_NoEmptyRoom


====
